---- MODULE Spec2Model ----
(***************************************************************************)
(* A model of the Slack workspace client (src/src/slack_client.py): the    *)
(* conversation directory and its time-boxed cache, reference resolution,  *)
(* the identity resolver and the write path (send, reply, react).          *)
(*                                                                         *)
(* Python strings are sequences of one-character strings, so that prefix,  *)
(* substring, lower-casing and slicing are computed as the code computes   *)
(* them.  The remote backend is the environment: what it holds is state,   *)
(* and whether each call succeeds is chosen by the action that issues it.  *)
(***************************************************************************)
EXTENDS Integers, Sequences, FiniteSets, TLC

VARIABLES
    now,          \* time.time(), in seconds
    directory,    \* backend: the conversations of the workspace, in listing order
    history,      \* backend: the messages of a conversation, newest first
    cache,        \* SlackClient._conversations_cache
    cacheTime,    \* SlackClient._conversations_cache_time
    userCache,    \* SlackClient._user_cache
    myUserId,     \* SlackClient._my_user_id
    lookups,      \* backend: the users.info requests received, per user id
    lastList,     \* observation: the latest get_conversations call of a caller
    lastFull,     \* observation: the latest completed enumeration of all kinds
    lastOp,       \* observation: the latest client operation and its outcome
    paging        \* the enumeration in progress: the while loop of get_conversations

vars == <<now, directory, history, cache, cacheTime, userCache, myUserId, lookups, lastList, lastFull, lastOp, paging>>

(***************************************************************************)
(* Bounds of the model.                                                    *)
(***************************************************************************)
MaxTime == 500
PageSize == 2

(***************************************************************************)
(* Program constants.                                                      *)
(***************************************************************************)
cache_ttl == 300

Deltas == {100, 200}

\* the value of an expression, computed once: Only({F(x) : x \in {e}}) is F(e)
Only(S) == CHOOSE x \in S : TRUE

(***************************************************************************)
(* Strings.                                                                *)
(***************************************************************************)
Range(s) == {s[i] : i \in 1..Len(s)}

UpperChars == <<"A","B","C","D","E","F","G","H","I","J","K","L","M",
                "N","O","P","Q","R","S","T","U","V","W","X","Y","Z">>

LowerChars == <<"a","b","c","d","e","f","g","h","i","j","k","l","m",
                "n","o","p","q","r","s","t","u","v","w","x","y","z">>

LowerOf == [c \in Range(UpperChars) |->
               LowerChars[CHOOSE i \in 1..Len(UpperChars) : UpperChars[i] = c]]

LowerChar(c) == IF c \in DOMAIN LowerOf THEN LowerOf[c] ELSE c

\* str.lower()
Lower(s) == [i \in 1..Len(s) |-> LowerChar(s[i])]

\* str.startswith(p)
StartsWith(s, p) == Len(p) <= Len(s) /\ SubSeq(s, 1, Len(p)) = p

\* p in s
Contains(s, p) ==
    \/ p = <<>>
    \/ \E i \in 0..(Len(s) - Len(p)) :
           s[i + 1] = p[1] /\ SubSeq(s, i + 1, i + Len(p)) = p

\* s[n:]
DropFirst(s, n) == SubSeq(s, n + 1, Len(s))

\* str.lstrip(ch) for a single character ch: every leading ch is removed
RECURSIVE LStrip(_, _)
LStrip(s, ch) ==
    IF s # <<>> /\ Head(s) = ch THEN LStrip(Tail(s), ch) ELSE s

RECURSIVE ReplaceAll(_, _, _)
ReplaceAll(s, old, new) ==
    IF Len(s) < Len(old) \/ old = <<>> THEN s
    ELSE IF SubSeq(s, 1, Len(old)) = old
         THEN new \o ReplaceAll(DropFirst(s, Len(old)), old, new)
         ELSE <<Head(s)>> \o ReplaceAll(Tail(s), old, new)

\* str.replace(old, new): the occurrences of old, left to right
Replace(s, old, new) ==
    IF Len(old) = 1 /\ Len(new) = 1
    THEN [i \in 1..Len(s) |-> IF s[i] = old[1] THEN new[1] ELSE s[i]]
    ELSE ReplaceAll(s, old, new)

(***************************************************************************)
(* The backend's conversations, as conversations.list returns them.  A     *)
(* flag a response leaves out reads as "absent"; last_read is <<>> when    *)
(* the response has none, and <<ts>> otherwise.                            *)
(***************************************************************************)
Absent == "absent"

Truthy(v) == v = "true"

rDev    == [id |-> <<"C","1">>, name |-> <<"d","e","v">>, is_im |-> Absent,
            is_mpim |-> "false", is_private |-> "false", user |-> <<>>,
            is_archived |-> "false", last_read |-> <<3>>]
rDevP   == [id |-> <<"G","1">>, name |-> <<"D","e","v">>, is_im |-> Absent,
            is_mpim |-> "false", is_private |-> "true", user |-> <<>>,
            is_archived |-> "false", last_read |-> <<6>>]
rJenny  == [id |-> <<"D","2">>, name |-> <<>>, is_im |-> "true",
            is_mpim |-> Absent, is_private |-> Absent, user |-> <<"U","2">>,
            is_archived |-> Absent, last_read |-> <<>>]
rJen    == [id |-> <<"D","1">>, name |-> <<>>, is_im |-> "true",
            is_mpim |-> Absent, is_private |-> Absent, user |-> <<"U","1">>,
            is_archived |-> Absent, last_read |-> <<5>>]
rGroup  == [id |-> <<"G","2">>, name |-> <<"m","p","d","m","-","a","-","-","d","e","v">>,
            is_im |-> "false", is_mpim |-> "true", is_private |-> "true", user |-> <<>>,
            is_archived |-> "false", last_read |-> <<0>>]

Directories ==
    { <<>>,
      <<rDev, rJenny>>,
      <<rDev, rJenny, rDevP, rJen, rGroup>> }

(***************************************************************************)
(* The kinds a caller asks for: types.split(",") of the strings the        *)
(* callers pass.                                                           *)
(***************************************************************************)
AllTypes  == <<"public_channel", "private_channel", "mpim", "im">>
ImTypes   == <<"im">>
ChanTypes == <<"public_channel", "private_channel">>
DmTypes   == <<"im", "mpim">>
GroupTypes == <<"private_channel", "mpim">>

TypesInputs == {AllTypes, ImTypes, ChanTypes, DmTypes}

\* _get_conversation_type
TypePrivateFirst(conv) ==
    IF Truthy(conv.is_private) THEN "group"
    ELSE IF Truthy(conv.is_im) THEN "dm"
    ELSE IF Truthy(conv.is_mpim) THEN "mpim"
    ELSE "channel"

_get_conversation_type(conv) ==
    IF Truthy(conv.is_im) THEN "dm"
    ELSE IF Truthy(conv.is_mpim) THEN "mpim"
    ELSE IF Truthy(conv.is_private) THEN "group"
    ELSE "channel"

NameOfRawUser(conv, conv_type) ==
    IF conv_type = "dm" THEN <<"@">> \o conv.user ELSE <<"#">> \o conv.name

\* _get_conversation_name with resolve_users = False, as get_conversations calls it
_get_conversation_name(conv, conv_type) ==
    IF conv_type = "dm"
    THEN IF conv.user # <<>>
         THEN <<"@","u","s","e","r",":">> \o conv.user
         ELSE <<"@","U","n","k","n","o","w","n">>
    ELSE IF conv_type = "mpim"
    THEN Replace(Replace(conv.name, <<"m","p","d","m","-">>, <<>>), <<"-","-">>, <<","," ">>)
    ELSE <<"#">> \o conv.name

\* Conversation(...) as built in the loop of get_conversations
Conversation(conv) ==
    LET conv_type == _get_conversation_type(conv) IN
    [id |-> conv["id"],
     name |-> _get_conversation_name(conv, conv_type),
     type |-> conv_type,
     is_archived |-> Truthy(conv.is_archived),
     last_read |-> conv.last_read]

\* the backend's own notion of a conversation's type, by which it honours
\* types= (exclude_archived=True is honoured along with it)
BackendType(conv) ==
    IF Truthy(conv.is_im) THEN "im"
    ELSE IF Truthy(conv.is_mpim) THEN "mpim"
    ELSE IF Truthy(conv.is_private) THEN "private_channel"
    ELSE "public_channel"

RECURSIVE SelectTypes(_, _)
SelectTypes(dir, types) ==
    IF dir = <<>> THEN <<>>
    ELSE IF BackendType(Head(dir)) \in Range(types) /\ ~Truthy(Head(dir).is_archived)
         THEN <<Head(dir)>> \o SelectTypes(Tail(dir), types)
         ELSE SelectTypes(Tail(dir), types)

\* client.conversations_list(types, cursor): one page and the next cursor
\* (0 stands for no cursor, both as a request's cursor=None and as a
\* response without next_cursor)
conversations_list(dir, types, cursor) ==
    LET all == SelectTypes(dir, types)
        from == cursor + 1
        to == IF cursor + PageSize < Len(all) THEN cursor + PageSize ELSE Len(all)
    IN [channels |-> SubSeq(all, from, to),
        next_cursor |-> IF to < Len(all) THEN to ELSE 0]

\* the while loop of get_conversations: pages are requested until a response
\* carries no cursor; the request numbered failAt raises SlackApiError
RECURSIVE FetchLoop(_, _, _, _, _, _)
FetchLoop(dir, types, cursor, conversations, calls, failAt) ==
    IF calls + 1 = failAt
    THEN [ok |-> FALSE, conversations |-> <<>>, calls |-> calls + 1]
    ELSE Only({
        LET convs == conversations \o
                     [i \in 1..Len(response.channels) |-> Conversation(response.channels[i])]
        IN IF response.next_cursor = 0
           THEN [ok |-> TRUE, conversations |-> convs, calls |-> calls + 1]
           ELSE FetchLoop(dir, types, response.next_cursor, convs, calls + 1, failAt)
        : response \in {conversations_list(dir, types, cursor)} })

\* line 105: the cached listing is used
CacheFresh(c, ctime, t, use_cache) ==
    use_cache /\ c.set /\ c.convs # <<>> /\ (t - ctime) < cache_ttl

\* lines 107-109
Allowed(types) ==
    {CASE t = "public_channel" -> "channel"
       [] t = "private_channel" -> "group"
       [] t = "mpim" -> "mpim"
       [] t = "im" -> "dm"
       [] OTHER -> t : t \in Range(types)}

RECURSIVE FilterType(_, _)
FilterType(convs, allowed) ==
    IF convs = <<>> THEN <<>>
    ELSE IF Head(convs).type \in allowed
         THEN <<Head(convs)>> \o FilterType(Tail(convs), allowed)
         ELSE FilterType(Tail(convs), allowed)

\* line 143: the listing just fetched is cached
ShouldCacheAlways(types) == TRUE

ShouldCache(types) == types = AllTypes

\* get_conversations: the value returned (or the error raised), the number of
\* backend calls issued, and the cache afterwards
get_conversations(c, ctime, t, dir, types, use_cache, failAt) ==
    IF CacheFresh(c, ctime, t, use_cache)
    THEN [ok |-> TRUE, conversations |-> FilterType(c.convs, Allowed(types)),
          calls |-> 0, cache |-> c, cacheTime |-> ctime]
    ELSE Only({
        IF ~f.ok
        THEN [ok |-> FALSE, conversations |-> <<>>, calls |-> f.calls,
              cache |-> c, cacheTime |-> ctime]
        ELSE IF ShouldCache(types)
        THEN [ok |-> TRUE, conversations |-> f.conversations, calls |-> f.calls,
              cache |-> [set |-> TRUE, convs |-> f.conversations], cacheTime |-> t]
        ELSE [ok |-> TRUE, conversations |-> f.conversations, calls |-> f.calls,
              cache |-> c, cacheTime |-> ctime]
        : f \in {FetchLoop(dir, types, 0, <<>>, 0, failAt)} })

\* the request of an enumeration that raises SlackApiError (0: none does)
FailChoices == 0..3

\* the same for the enumeration inside an operation: none, or the first request
OpFailChoices == {0, 1}

(***************************************************************************)
(* The client's state, threaded through its methods.                       *)
(***************************************************************************)
ClientState == [cache |-> cache, cacheTime |-> cacheTime,
                userCache |-> userCache, myUserId |-> myUserId, lookups |-> lookups]

\* self.get_conversations(types=...) on the client state st
ListConversations(st, t, dir, types, failAt) ==
    Only({ [ok |-> r.ok, conversations |-> r.conversations, calls |-> r.calls,
            st |-> [st EXCEPT !.cache = r.cache, !.cacheTime = r.cacheTime]]
           : r \in {get_conversations(st.cache, st.cacheTime, t, dir, types, TRUE, failAt)} })

(***************************************************************************)
(* Identity resolver.                                                      *)
(***************************************************************************)
U0 == <<"U","0">>
U1 == <<"U","1">>
U2 == <<"U","2">>

Users == {U1, U2}

\* the backend's profiles, as users.info returns them
Profile(user_id) ==
    IF user_id = U1 THEN [name |-> <<"j","e","n">>, real_name |-> <<"J","e","n">>]
    ELSE IF user_id = U2 THEN [name |-> <<"j","n","y">>, real_name |-> <<"J","e","n","n","y">>]
    ELSE IF user_id # <<"U","0">>
    THEN [name |-> <<"u">> \o user_id, real_name |-> <<"M","r"," ">> \o user_id]
    ELSE [name |-> <<"m","e">>, real_name |-> <<Absent>>]

UnknownBlank == <<>>

UnknownUser == <<"U","n","k","n","o","w","n"," ","U","s","e","r">>

\* the users.info requests for at most this many are told apart
MaxLookups == 3

\* the backend receives one more users.info request for user_id
Received(n, user_id) ==
    LET seen == IF user_id \in DOMAIN n THEN n[user_id] ELSE 0 IN
    (user_id :> (IF seen < MaxLookups THEN seen + 1 ELSE MaxLookups)) @@ n

CachedUnlessPlaceholder(st, user_id) ==
    /\ user_id \in DOMAIN st.userCache
    /\ st.userCache[user_id].real_name # UnknownUser

\* line 83: user_id in self._user_cache
Cached(st, user_id) == user_id \in DOMAIN st.userCache

\* get_user: users.info fails for the users in failing
get_user(st, user_id, failing) ==
    IF Cached(st, user_id)
    THEN [user |-> st.userCache[user_id], st |-> st, calls |-> 0]
    ELSE LET user_data == Profile(user_id)
             user == IF user_id \in failing
                     THEN [id |-> user_id, name |-> <<"u","n","k","n","o","w","n">>,
                           real_name |-> UnknownUser]
                     ELSE [id |-> user_id, name |-> user_data.name,
                           real_name |-> IF user_data.real_name = <<Absent>>
                                         THEN user_data.name
                                         ELSE user_data.real_name]
         IN [user |-> user,
             st |-> [st EXCEPT !.userCache = (user_id :> user) @@ st.userCache,
                               !.lookups = Received(st.lookups, user_id)],
             calls |-> 1]

UserPrefix == <<"@","u","s","e","r",":">>

\* resolve_dm_name
resolve_dm_name(st, conv, failing) ==
    IF StartsWith(conv.name, UserPrefix)
    THEN LET g == get_user(st, DropFirst(conv.name, 6), failing) IN
         [name |-> <<"@">> \o g.user.real_name, st |-> g.st, calls |-> g.calls]
    ELSE [name |-> conv.name, st |-> st, calls |-> 0]

(***************************************************************************)
(* Reference resolution.                                                   *)
(***************************************************************************)
Whitespace == {" ", "\n", "\t"}

RECURSIVE LStripSpace(_)
LStripSpace(s) ==
    IF s # <<>> /\ Head(s) \in Whitespace THEN LStripSpace(Tail(s)) ELSE s

RECURSIVE RStripSpace(_)
RStripSpace(s) ==
    IF s # <<>> /\ s[Len(s)] \in Whitespace
    THEN RStripSpace(SubSeq(s, 1, Len(s) - 1)) ELSE s

\* str.strip()
Strip(s) == RStripSpace(LStripSpace(s))

\* the index of the first conversation the loop returns at, 0 when it runs out
FirstMatch(hits) ==
    IF hits = {} THEN 0 ELSE CHOOSE i \in hits : \A j \in hits : i <= j

\* line 462
IsId(channel) ==
    \/ StartsWith(channel, <<"C">>)
    \/ StartsWith(channel, <<"D">>)
    \/ StartsWith(channel, <<"G">>)

\* line 474
DmMatches(username, conv) == Contains(Lower(conv.name), Lower(username))

\* line 480
ChannelMatchesAnyCase(channel, conv) == Lower(LStrip(conv.name, "#")) = Lower(channel)

ChannelMatches(channel, conv) == LStrip(conv.name, "#") = channel

\* _resolve_channel: kind is "ok" (value is the id), "ValueError" (searched
\* is what the message names) or "SlackApiError" (the enumeration failed)
_resolve_channel(st, t, dir, channel, failAt) ==
    IF IsId(channel)
    THEN [kind |-> "ok", value |-> channel, what |-> "id", searched |-> <<>>,
          calls |-> 0, st |-> st]
    ELSE LET ch == IF StartsWith(channel, <<"#">>) THEN DropFirst(channel, 1) ELSE channel IN
         IF StartsWith(ch, <<"@">>)
         THEN Only({
                 LET username == DropFirst(ch, 1)
                     i == FirstMatch({k \in 1..Len(r.conversations) :
                                        DmMatches(username, r.conversations[k])})
                 IN IF ~r.ok
                    THEN [kind |-> "SlackApiError", value |-> <<>>, what |-> "dm",
                          searched |-> <<>>, calls |-> r.calls, st |-> r.st]
                    ELSE IF i # 0
                    THEN [kind |-> "ok", value |-> r.conversations[i].id, what |-> "dm",
                          searched |-> <<>>, calls |-> r.calls, st |-> r.st]
                    ELSE [kind |-> "ValueError", value |-> <<>>, what |-> "dm",
                          searched |-> username, calls |-> r.calls, st |-> r.st]
                 : r \in {ListConversations(st, t, dir, ImTypes, failAt)} })
         ELSE Only({
                 LET i == FirstMatch({k \in 1..Len(r.conversations) :
                                         ChannelMatches(ch, r.conversations[k])})
                 IN IF ~r.ok
                    THEN [kind |-> "SlackApiError", value |-> <<>>, what |-> "channel",
                          searched |-> <<>>, calls |-> r.calls, st |-> r.st]
                    ELSE IF i # 0
                    THEN [kind |-> "ok", value |-> r.conversations[i].id,
                          what |-> "channel", searched |-> <<>>, calls |-> r.calls,
                          st |-> r.st]
                    ELSE [kind |-> "ValueError", value |-> <<>>, what |-> "channel",
                          searched |-> ch, calls |-> r.calls, st |-> r.st]
                 : r \in {ListConversations(st, t, dir, ChanTypes, failAt)} })

\* line 511
PersonPartial(person_lower, name_lower) == Contains(name_lower, person_lower)

\* line 503
PersonExactOrPartial(person_lower, name_lower) == Contains(name_lower, person_lower)

PersonExact(person_lower, name_lower) == person_lower = name_lower

\* one of the two loops of find_dm_by_person, from conversation i on: each
\* name is resolved, and the loop returns at the first that matches
RECURSIVE ScanDms(_, _, _, _, _, _)
ScanDms(st, convs, i, person_lower, exact, failing) ==
    IF i > Len(convs)
    THEN [found |-> 0, name |-> <<>>, st |-> st]
    ELSE Only({ LET name_lower == LStrip(Lower(r.name), "@")
                    hit == IF exact THEN PersonExact(person_lower, name_lower)
                           ELSE PersonPartial(person_lower, name_lower)
                IN IF hit
                   THEN [found |-> i, name |-> r.name, st |-> r.st]
                   ELSE ScanDms(r.st, convs, i + 1, person_lower, exact, failing)
                : r \in {resolve_dm_name(st, convs[i], failing)} })

\* find_dm_by_person, once get_conversations(types="im") has returned r
FindAmong(r, person, person_lower, failing) ==
    IF ~r.ok
    THEN [kind |-> "SlackApiError", value |-> <<>>, name |-> <<>>, searched |-> <<>>,
          dms |-> <<>>, calls |-> r.calls, st |-> r.st]
    ELSE Only({
        IF p1.found # 0
        THEN [kind |-> "ok", value |-> r.conversations[p1.found].id, name |-> p1.name,
              searched |-> <<>>, dms |-> r.conversations, calls |-> r.calls, st |-> p1.st]
        ELSE Only({
            IF p2.found # 0
            THEN [kind |-> "ok", value |-> r.conversations[p2.found].id, name |-> p2.name,
                  searched |-> <<>>, dms |-> r.conversations, calls |-> r.calls,
                  st |-> p2.st]
            ELSE [kind |-> "ValueError", value |-> <<>>, name |-> <<>>,
                  searched |-> person, dms |-> r.conversations, calls |-> r.calls,
                  st |-> p2.st]
            : p2 \in {ScanDms(p1.st, r.conversations, 1, person_lower, FALSE, failing)} })
        : p1 \in {ScanDms(r.st, r.conversations, 1, person_lower, TRUE, failing)} })

\* find_dm_by_person
find_dm_by_person(st, t, dir, person, failAt, failing) ==
    Only({ FindAmong(r, person, LStrip(Strip(Lower(person)), "@"), failing)
           : r \in {ListConversations(st, t, dir, ImTypes, failAt)} })

(***************************************************************************)
(* Message history.  The backend returns a conversation's messages newest  *)
(* first; a message id (ts) is an opaque token, here a number that grows   *)
(* with time.                                                              *)
(***************************************************************************)
Rep(c, n) == [i \in 1..n |-> c]

tShort   == <<"o","k"," ","g","o">>
tLong    == <<"u","p","\n","n","o","w"," ">> \o Rep("a", 41) \o <<" ">> \o Rep("b", 6)
tNoSpace == Rep("c", 55)
tDeploy  == <<"d","e","p","l","o","y","e","d">>

Raw(ts, text, subtype, user) == [ts |-> ts, text |-> text, subtype |-> subtype, user |-> user]

hPlain == << Raw(6, tShort, "", U1), Raw(5, tLong, "", U1), Raw(3, <<>>, "", U1),
             Raw(2, tNoSpace, "", U1) >>

hBot   == << Raw(6, tDeploy, "bot_message", <<>>), Raw(5, tLong, "", U1),
             Raw(2, tShort, "", U1) >>

hAdmin == << Raw(6, <<>>, "channel_join", U1), Raw(5, <<>>, "channel_leave", U1),
             Raw(3, tDeploy, "bot_message", <<>>), Raw(2, tShort, "", U1) >>

Histories == { hPlain, hBot, hAdmin }

RECURSIVE SelectBounds(_, _, _, _)
SelectBounds(msgs, oldest, latest, inclusive) ==
    IF msgs = <<>> THEN <<>>
    ELSE LET ts == Head(msgs).ts
             in == /\ (oldest = 0 \/ ts > oldest \/ (inclusive /\ ts = oldest))
                   /\ (latest = 0 \/ ts < latest \/ (inclusive /\ ts = latest))
         IN IF in THEN <<Head(msgs)>> \o SelectBounds(Tail(msgs), oldest, latest, inclusive)
            ELSE SelectBounds(Tail(msgs), oldest, latest, inclusive)

\* client.conversations_history(channel, limit, oldest, latest, inclusive):
\* the newest limit messages within the bounds (0: no bound)
conversations_history(hist, limit, oldest, latest, inclusive) ==
    LET all == SelectBounds(hist, oldest, latest, inclusive) IN
    SubSeq(all, 1, IF Len(all) < limit THEN Len(all) ELSE limit)

\* the my_user_id property: auth.test is called while _my_user_id is None
my_user_id(st, auth) ==
    IF st.myUserId # <<>>
    THEN [ok |-> TRUE, id |-> st.myUserId, st |-> st]
    ELSE IF auth = "ok"
    THEN [ok |-> TRUE, id |-> U0, st |-> [st EXCEPT !.myUserId = U0]]
    ELSE [ok |-> FALSE, id |-> <<>>, st |-> st]

Mention(user_id) == <<"<","@">> \o user_id \o <<">">>

AdminSubtypesJoinOnly == {"channel_join"}

\* lines 205-206: the subtypes get_messages skips
AdminSubtypes == {"channel_join", "channel_leave", "bot_message"}

\* the loop of get_messages over the response's messages
RECURSIVE ConvertMessages(_, _, _, _, _)
ConvertMessages(st, msgs, channel_id, acc, o) ==
    IF msgs = <<>>
    THEN [ok |-> TRUE, messages |-> acc, st |-> st]
    ELSE LET msg == Head(msgs) IN
         IF msg.subtype \in AdminSubtypes
         THEN ConvertMessages(st, Tail(msgs), channel_id, acc, o)
         ELSE Only({
             Only({
                 IF ~me.ok
                 THEN [ok |-> FALSE, messages |-> <<>>, st |-> me.st]
                 ELSE ConvertMessages(me.st, Tail(msgs), channel_id,
                          Append(acc, [ts |-> msg.ts, text |-> msg.text,
                                       user_id |-> msg.user,
                                       user_name |-> IF msg.user # <<>>
                                                     THEN u.user.real_name ELSE <<>>,
                                       channel_id |-> channel_id,
                                       is_mention |-> Contains(msg.text, Mention(me.id))]),
                          o)
                 : me \in {my_user_id(u.st, o.auth)} })
             : u \in {IF msg.user # <<>> THEN get_user(st, msg.user, o.failing)
                      ELSE [user |-> <<>>, st |-> st, calls |-> 0]} })

NotFoundOrLimited(error) == error \in {"channel_not_found", "ratelimited"}

\* line 200: e.response["error"] == "channel_not_found"
NotFound(error) == error = "channel_not_found"

\* get_messages: kind is "ok", or "SlackApiError" when conversations.history
\* fails otherwise than with channel_not_found, or when auth.test fails
get_messages(st, hist, channel_id, limit, oldest, latest, o) ==
    IF NotFound(o.hist)
    THEN [kind |-> "ok", messages |-> <<>>, st |-> st]
    ELSE IF o.hist # "ok"
    THEN [kind |-> "SlackApiError", messages |-> <<>>, st |-> st]
    ELSE Only({ [kind |-> IF c.ok THEN "ok" ELSE "SlackApiError",
                 messages |-> c.messages, st |-> c.st]
                : c \in {ConvertMessages(st,
                            conversations_history(hist, limit, oldest, latest, FALSE),
                            channel_id, <<>>, o)} })

(***************************************************************************)
(* The write path.                                                         *)
(***************************************************************************)
context_len == 50

\* s.rsplit(' ', 1)[0]
RSplitHead(s) ==
    LET spaces == {i \in 1..Len(s) : s[i] = " "} IN
    IF spaces = {} THEN s
    ELSE SubSeq(s, 1, (CHOOSE i \in spaces : \A j \in spaces : j <= i) - 1)

Ellipsis == <<".",".",".">>

\* lines 425-429: the excerpt of the original message
ReplyContext(text) ==
    LET head == SubSeq(text, 1, IF Len(text) < context_len THEN Len(text) ELSE context_len)
        context == IF Len(text) > context_len THEN RSplitHead(head) \o Ellipsis ELSE head
    IN Strip(Replace(context, <<"\n">>, <<" ">>))

\* line 430; "--" stands for the dash character of the source
ReplyPrefixed(context, text) ==
    <<"R","e",":"," ","\"">> \o context \o <<"\""," ","--"," ">> \o text

\* lines 397-421: the original message, looked up in recent and then, when
\* it is not there, fetched (a failure of that fetch is swallowed);
\* found = FALSE stands for None
FindOriginal(hist, recent, reply_to_ts, o) ==
    LET i == {k \in 1..Len(recent) : recent[k].ts = reply_to_ts}
        fetched == conversations_history(hist, 1, 0, reply_to_ts, TRUE)
    IN IF i # {}
       THEN [found |-> TRUE, text |-> recent[CHOOSE k \in i : \A j \in i : k <= j].text,
             fetches |-> 0]
       ELSE IF o.fetch = "ok" /\ fetched # <<>>
       THEN [found |-> TRUE, text |-> fetched[1].text, fetches |-> 1]
       ELSE [found |-> FALSE, text |-> <<>>, fetches |-> 1]

\* _maybe_add_reply_context
_maybe_add_reply_context(st, hist, channel_id, reply_to_ts, text, o) ==
    Only({
        IF g.kind # "ok"
        THEN [kind |-> g.kind, text |-> text, st |-> g.st]
        ELSE IF g.messages = <<>>
        THEN [kind |-> "ok", text |-> text, st |-> g.st]
        ELSE IF g.messages[1].ts = reply_to_ts
        THEN [kind |-> "ok", text |-> text, st |-> g.st]
        ELSE Only({
             IF original.found /\ original.text # <<>>
             THEN [kind |-> "ok", text |-> ReplyPrefixed(ReplyContext(original.text), text),
                   st |-> g.st]
             ELSE [kind |-> "ok", text |-> text, st |-> g.st]
             : original \in {FindOriginal(hist, g.messages, reply_to_ts, o)} })
        : g \in {get_messages(st, hist, channel_id, 3, 0, 0, o)} })

\* the id the backend gives the message it accepts
NewTs == 9

NoPost == [channel |-> <<>>, text |-> <<>>, thread_ts |-> 0]

\* lines 370-382 of send_message: the post, and then the Message, whose
\* user_id is read from the my_user_id property
PostAndBuild(st, channel_id, text, thread_ts, o) ==
    LET kwargs == [channel |-> channel_id, text |-> text, thread_ts |-> thread_ts] IN
    IF o.post # "ok"
    THEN [kind |-> "SlackApiError", ts |-> 0, posts |-> 1, accepted |-> FALSE,
          posted |-> kwargs, st |-> st]
    ELSE Only({
        IF ~me.ok
        THEN [kind |-> "SlackApiError", ts |-> 0, posts |-> 1, accepted |-> TRUE,
              posted |-> kwargs, st |-> me.st]
        ELSE [kind |-> "ok", ts |-> NewTs, posts |-> 1, accepted |-> TRUE,
              posted |-> kwargs, st |-> me.st]
        : me \in {my_user_id(st, o.auth)} })

RaisesApiErrorOnly(r) == r.kind = "SlackApiError"

\* an exception raised by _resolve_channel leaves the method at once
Raises(r) == r.kind # "ok"

\* send_message, from the outcome r of its _resolve_channel(channel) call
\* (line 363) on
send_message(r, hist, text, thread_ts, context_for_ts, o) ==
    IF Raises(r)
    THEN [kind |-> r.kind, ts |-> 0, posts |-> 0, accepted |-> FALSE,
          posted |-> NoPost, resolution |-> r.kind, context |-> "none", st |-> r.st]
    ELSE IF context_for_ts = 0
    THEN Only({ [kind |-> w.kind, ts |-> w.ts, posts |-> w.posts,
                 accepted |-> w.accepted, posted |-> w.posted,
                 resolution |-> r.kind, context |-> "none", st |-> w.st]
                : w \in {PostAndBuild(r.st, r.value, text, thread_ts, o)} })
    ELSE Only({
        IF c.kind # "ok"
        THEN [kind |-> c.kind, ts |-> 0, posts |-> 0, accepted |-> FALSE,
              posted |-> NoPost, resolution |-> r.kind, context |-> c.kind, st |-> c.st]
        ELSE Only({ [kind |-> w.kind, ts |-> w.ts, posts |-> w.posts,
                     accepted |-> w.accepted, posted |-> w.posted,
                     resolution |-> r.kind, context |-> c.kind, st |-> w.st]
                    : w \in {PostAndBuild(c.st, r.value, c.text, thread_ts, o)} })
        : c \in {_maybe_add_reply_context(r.st, hist, r.value, context_for_ts, text, o)} })

\* str.strip(":")
RECURSIVE RStrip(_, _)
RStrip(s, ch) ==
    IF s # <<>> /\ s[Len(s)] = ch THEN RStrip(SubSeq(s, 1, Len(s) - 1), ch) ELSE s

StripChar(s, ch) == RStrip(LStrip(s, ch), ch)

NoReaction == [channel |-> <<>>, timestamp |-> 0, name |-> <<>>]

\* add_reaction, from the outcome r of its _resolve_channel(channel) call
\* (line 445) on; react is the outcome of reactions.add
add_reaction(r, timestamp, emoji, react) ==
    IF Raises(r)
    THEN [kind |-> r.kind, reacts |-> 0, resolution |-> r.kind,
          reaction |-> NoReaction, st |-> r.st]
    ELSE [kind |-> IF react = "ok" THEN "true" ELSE "false", reacts |-> 1,
          resolution |-> r.kind,
          reaction |-> [channel |-> r.value, timestamp |-> timestamp,
                        name |-> StripChar(emoji, ":")],
          st |-> r.st]

(***************************************************************************)
(* What the callers pass.                                                  *)
(***************************************************************************)
RefInputs ==
    { <<"C","1">>,
      <<"#","d","e","v">>, <<"d","e","v">>, <<"#","D","e","v">>,
      <<"#","D","E","V">>, <<"#","#","d","e","v">>, <<"o","p","s">>,
      <<"a",","," ","d","e","v">>,
      <<"@","j","e","n">>, <<"@","u","1">>, <<"#","@","U","S","E","R">>, <<"@","z","e","d">> }

PersonInputs ==
    { <<"j","e","n">>, <<"@","J","e","n">>, <<" ","j","e","n","n","y"," ">>,
      <<"e","n","n">>, <<"u","s","e","r">>, <<"z","e","d">> }

NoUser == [id |-> <<>>, name |-> <<>>, real_name |-> <<>>]

NoList == [valid |-> FALSE, n |-> 0, time |-> 0, types |-> <<>>, ok |-> TRUE,
           calls |-> 0, conversations |-> <<>>]

NoFull == [valid |-> FALSE, time |-> 0, conversations |-> <<>>]

\* no enumeration in progress, none made: the loop's types, cursor and
\* conversations, the cursors it sent (requests), the responses it received
\* (pages), how it ended, and the cache when it began
NoPaging == [active |-> FALSE, types |-> <<>>, cursor |-> 0, conversations |-> <<>>,
             requests |-> <<>>, pages |-> <<>>, outcome |-> "none",
             before |-> [cache |-> <<>>, cacheTime |-> 0]]

\* the record of an operation: what was asked, how it ended (kind, value,
\* searched), what the client had to go by (view: the listing of every kind
\* it consulted; dms: the direct-message conversations it scanned), and the
\* writes it issued
NoOp == [op |-> "none", ref |-> <<>>, kind |-> "none", value |-> <<>>, what |-> "",
         searched |-> <<>>, name |-> <<>>, view |-> <<>>, dms |-> <<>>,
         resolution |-> "none", posts |-> 0, reacts |-> 0,
         ctx |-> 0, reads |-> "none", lookup |-> "none", context |-> "none",
         accepted |-> FALSE, ts |-> 0, posted |-> NoPost, reaction |-> NoReaction,
         limit |-> 0, messages |-> <<>>, user |-> NoUser, listing |-> <<>>,
         hours |-> 0, bad |-> <<>>, how |-> "none", fetches |-> <<>>,
         names |-> <<>>, unread |-> <<>>, text |-> "", recent |-> <<>>,
         mentions |-> <<>>, counts |-> <<0, 0>>, summary |-> <<>>]

\* every conversation the backend lists, converted, with no paging
WholeListing(dir) ==
    LET all == SelectTypes(dir, AllTypes) IN
    [i \in 1..Len(all) |-> Conversation(all[i])]

\* the listing of every kind a get_conversations call at time t goes by
View(st, t, dir) ==
    IF CacheFresh(st.cache, st.cacheTime, t, TRUE) THEN st.cache.convs ELSE WholeListing(dir)

(***************************************************************************)
(* Actions.                                                                *)
(***************************************************************************)
Init ==
    /\ now = 0
    /\ directory \in Directories
    /\ history = <<>>
    /\ cache = [set |-> FALSE, convs |-> <<>>]
    /\ cacheTime = 0
    /\ userCache = <<>>
    /\ myUserId = <<>>
    /\ lookups = <<>>
    /\ lastList = NoList
    /\ lastFull = NoFull
    /\ paging = NoPaging
    /\ lastOp = NoOp

\* time passes
Tick ==
    /\ \E d \in Deltas : now + d <= MaxTime /\ now' = now + d
    /\ UNCHANGED <<directory, history, cache, cacheTime, userCache, myUserId, lookups, lastList, lastFull, lastOp, paging>>

\* the workspace's conversations change at the backend
BackendChange ==
    /\ \E d \in Directories : d # directory /\ directory' = d
    /\ UNCHANGED <<now, history, cache, cacheTime, userCache, myUserId, lookups, lastList, lastFull, lastOp, paging>>

\* a caller lists conversations (slack_channels, or any get_conversations call)
List ==
    \E types \in TypesInputs, failAt \in FailChoices :
        \E r \in {get_conversations(cache, cacheTime, now, directory, types, TRUE, failAt)} :
        /\ cache' = r.cache
        /\ cacheTime' = r.cacheTime
        /\ lastList' = [valid |-> TRUE, n |-> 1 - lastList.n, time |-> now,
                        types |-> types, ok |-> r.ok, calls |-> r.calls,
                        conversations |-> r.conversations]
        /\ lastFull' = IF r.ok /\ r.calls > 0 /\ types = AllTypes
                       THEN [valid |-> TRUE, time |-> now,
                             conversations |-> WholeListing(directory)]
                       ELSE lastFull
        /\ UNCHANGED <<now, directory, history, userCache, myUserId, lookups, lastOp, paging>>

Next == Tick \/ BackendChange \/ List

Spec == Init /\ [][Next]_vars

(***************************************************************************)
(* Reference resolution: the operations that map a reference to a          *)
(* conversation.                                                           *)
(***************************************************************************)
\* the outcomes of the enumeration an operation may need: it needs none
\* while the cached listing is fresh
EnumerationFailures ==
    IF CacheFresh(cache, cacheTime, now, TRUE) THEN {0} ELSE OpFailChoices

Install(st) ==
    /\ cache' = st.cache
    /\ cacheTime' = st.cacheTime
    /\ userCache' = st.userCache
    /\ myUserId' = st.myUserId
    /\ lookups' = st.lookups

\* the freshness window passes
Wait ==
    /\ now + cache_ttl <= MaxTime
    /\ now' = now + cache_ttl
    /\ UNCHANGED <<directory, history, cache, cacheTime, userCache, myUserId, lookups, lastList, lastFull, lastOp, paging>>

\* a summary lists every conversation: get_conversations()
Warm ==
    \E failAt \in EnumerationFailures :
        \E r \in {ListConversations(ClientState, now, directory, AllTypes, failAt)} :
        /\ Install(r.st)
        /\ UNCHANGED <<now, directory, history, lastList, lastFull, lastOp, paging>>

\* slack_channel, slack_thread: _resolve_channel(channel)
Resolve ==
    \E view \in {View(ClientState, now, directory)},
       ref \in RefInputs, failAt \in EnumerationFailures :
        \E r \in {_resolve_channel(ClientState, now, directory, ref, failAt)} :
        /\ Install(r.st)
        /\ lastOp' = [NoOp EXCEPT !.op = "resolve", !.ref = ref, !.kind = r.kind,
                                  !.value = r.value, !.what = r.what,
                                  !.searched = r.searched,
                                  !.view = view]
        /\ UNCHANGED <<now, directory, history, lastList, lastFull, paging>>

\* slack_dm: find_dm_by_person(person)
FindDm ==
    \E view \in {View(ClientState, now, directory)},
       person \in PersonInputs, failAt \in EnumerationFailures,
       failing \in SUBSET (Users \ DOMAIN userCache) :
        \E r \in {find_dm_by_person(ClientState, now, directory, person, failAt, failing)} :
        /\ Install(r.st)
        /\ lastOp' = [NoOp EXCEPT !.op = "find_dm", !.ref = person, !.kind = r.kind,
                                  !.value = r.value, !.what = "person",
                                  !.searched = r.searched, !.name = r.name,
                                  !.dms = r.dms,
                                  !.resolution = IF r.kind = "ValueError" THEN "failed"
                                                 ELSE IF r.kind = "ok" THEN "ok"
                                                 ELSE "error",
                                  !.view = view]
        /\ UNCHANGED <<now, directory, history, lastList, lastFull, paging>>

NextResolve == Wait \/ BackendChange \/ Warm \/ Resolve \/ FindDm

SpecResolve == Init /\ [][NextResolve]_vars

(***************************************************************************)
(* Writing: the operations that post a message or add a reaction.          *)
(***************************************************************************)
SendRefs == { <<"C","1">>, <<"#","d","e","v">>, <<"o","p","s">> }

\* the message ids a caller quotes; 0 stands for None
CtxInputs == {0, 2, 3, 5, 6}

SendText == <<"h","i">>

ReplyThreadTs == 4

EmojiInputs == { <<":","o","k",":">>, <<"o","k">> }

HistoryOutcomes == {"ok", "channel_not_found", "ratelimited"}

\* the outcomes of the backend calls an operation makes once its reference
\* is resolved (reads: it reads the history; writes: it posts); none is drawn
\* for a call the operation does not reach
Outcomes(reads, writes) ==
    { o \in [ hist    : IF reads THEN HistoryOutcomes ELSE {"ok"},
              fetch   : IF reads THEN {"ok", "error"} ELSE {"ok"},
              failing : IF reads THEN SUBSET ({U1} \ DOMAIN userCache) ELSE {{}},
              auth    : IF myUserId = <<>> /\ writes THEN {"ok", "error"} ELSE {"ok"},
              post    : IF writes THEN {"ok", "error"} ELSE {"ok"} ] :
        /\ o.hist # "ok" => o.fetch = "ok" /\ o.failing = {}
        /\ o.hist = "ratelimited" => o.post = "ok" /\ o.auth = "ok" }

\* the outcomes of the enumeration a reference needs: an id needs none
ResolutionFailures(ref) == IF IsId(ref) THEN {0} ELSE EnumerationFailures

Resolution(kind) ==
    IF kind = "ValueError" THEN "failed" ELSE IF kind = "ok" THEN "ok" ELSE "error"

SendOp(op, ref, ctx, o, r, view) ==
    [NoOp EXCEPT !.op = op, !.ref = ref, !.kind = r.kind, !.ctx = ctx,
                 !.resolution = Resolution(r.resolution),
                 !.reads = o.hist, !.lookup = o.fetch, !.context = r.context,
                 !.posts = r.posts, !.accepted = r.accepted, !.ts = r.ts,
                 !.posted = r.posted, !.view = view]

InitSend ==
    /\ now = 0
    /\ directory \in {d \in Directories : Len(d) > PageSize}
    /\ history \in Histories
    /\ cache = [set |-> FALSE, convs |-> <<>>]
    /\ cacheTime = 0
    /\ userCache = <<>>
    /\ myUserId = <<>>
    /\ lookups = <<>>
    /\ lastList = NoList
    /\ lastFull = NoFull
    /\ paging = NoPaging
    /\ lastOp = NoOp

\* slack_send: send_message(channel, text, context_for_ts=reply_to_ts)
Send ==
    \E view \in {View(ClientState, now, directory)}, ref \in SendRefs :
        \E failAt \in ResolutionFailures(ref) :
        \E res \in {_resolve_channel(ClientState, now, directory, ref, failAt)} :
        \E ctx \in CtxInputs :
        \E o \in Outcomes(~Raises(res) /\ ctx # 0, ~Raises(res)) :
        \E r \in {send_message(res, history, SendText, 0, ctx, o)} :
        /\ Install(r.st)
        /\ lastOp' = SendOp("send", ref, ctx, o, r, view)
        /\ UNCHANGED <<now, directory, history, lastList, lastFull, paging>>

\* reply_to_thread(channel, thread_ts, text)
Reply ==
    \E view \in {View(ClientState, now, directory)}, ref \in SendRefs :
        \E failAt \in ResolutionFailures(ref) :
        \E res \in {_resolve_channel(ClientState, now, directory, ref, failAt)} :
        \E o \in Outcomes(FALSE, ~Raises(res)) :
        \E r \in {send_message(res, history, SendText, ReplyThreadTs, 0, o)} :
        /\ Install(r.st)
        /\ lastOp' = SendOp("reply", ref, 0, o, r, view)
        /\ UNCHANGED <<now, directory, history, lastList, lastFull, paging>>

\* slack_react: add_reaction(channel, timestamp, emoji)
React ==
    \E view \in {View(ClientState, now, directory)}, ref \in SendRefs :
        \E failAt \in ResolutionFailures(ref) :
        \E res \in {_resolve_channel(ClientState, now, directory, ref, failAt)} :
        \E emoji \in EmojiInputs, react \in {"ok", "error"} :
        \E r \in {add_reaction(res, ReplyThreadTs, emoji, react)} :
        /\ Install(r.st)
        /\ lastOp' = [NoOp EXCEPT !.op = "react", !.ref = ref, !.kind = r.kind,
                                  !.resolution = Resolution(r.resolution),
                                  !.reacts = r.reacts, !.reaction = r.reaction,
                                  !.accepted = (r.reacts = 1 /\ react = "ok"),
                                  !.view = view]
        /\ UNCHANGED <<now, directory, history, lastList, lastFull, paging>>

NextSend == Warm \/ Send \/ Reply \/ React \/ FindDm

SpecSend == InitSend /\ [][NextSend]_vars

(***************************************************************************)
(* Reading: the operations that read messages, users and the directory.    *)
(***************************************************************************)
HistoryRefs == { <<"C","1">>, <<"D","1">>, <<"#","d","e","v">> }

LimitInputs == {2, 20}

\* the outcomes of the backend calls of get_messages
ReadOutcomes ==
    { o \in [ hist    : HistoryOutcomes,
              fetch   : {"ok"},
              failing : SUBSET ({U1} \ DOMAIN userCache),
              auth    : IF myUserId = <<>> THEN {"ok", "error"} ELSE {"ok"},
              post    : {"ok"} ] :
        o.hist # "ok" => o.failing = {} /\ o.auth = "ok" }

NoOutcome == [hist |-> "ok", fetch |-> "ok", failing |-> {}, auth |-> "ok", post |-> "ok"]

\* slack_channel, from the outcome r of its _resolve_channel(channel) call
\* (line 385) on
slack_channel(r, hist, limit, o) ==
    IF Raises(r)
    THEN [kind |-> r.kind, messages |-> <<>>, st |-> r.st]
    ELSE get_messages(r.st, hist, r.value, limit, 0, 0, o)

InitRead ==
    /\ now = 0
    /\ directory \in {d \in Directories : Len(d) > PageSize}
    /\ history \in Histories
    /\ cache = [set |-> FALSE, convs |-> <<>>]
    /\ cacheTime = 0
    /\ userCache = <<>>
    /\ myUserId = <<>>
    /\ lookups = <<>>
    /\ lastList = NoList
    /\ lastFull = NoFull
    /\ paging = NoPaging
    /\ lastOp = NoOp

\* slack_channel: the recent messages of a conversation
History ==
    \E ref \in HistoryRefs, limit \in LimitInputs :
        \E failAt \in ResolutionFailures(ref) :
        \E res \in {_resolve_channel(ClientState, now, directory, ref, failAt)} :
        \E o \in (IF Raises(res) THEN {NoOutcome} ELSE ReadOutcomes) :
        \E r \in {slack_channel(res, history, limit, o)} :
        /\ Install(r.st)
        /\ lastOp' = [NoOp EXCEPT !.op = "history", !.ref = ref, !.kind = r.kind,
                                  !.value = res.value,
                                  !.resolution = Resolution(res.kind),
                                  !.reads = o.hist, !.limit = limit,
                                  !.messages = r.messages]
        /\ UNCHANGED <<now, directory, history, lastList, lastFull, paging>>

\* any caller's get_user(user_id)
GetUser ==
    \E user_id \in Users :
        \E failing \in SUBSET ({user_id} \ DOMAIN userCache) :
        \E r \in {get_user(ClientState, user_id, failing)} :
        /\ Install(r.st)
        /\ lastOp' = [NoOp EXCEPT !.op = "get_user", !.ref = user_id, !.kind = "ok",
                                  !.lookup = IF r.calls = 0 THEN "cached"
                                             ELSE IF user_id \in failing THEN "error"
                                             ELSE "ok",
                                  !.user = r.user]
        /\ UNCHANGED <<now, directory, history, lastList, lastFull, paging>>

\* lines 476-483 of slack_channels
FilterTypes(filter_type) ==
    IF filter_type = "all" THEN AllTypes
    ELSE IF filter_type = "dms" THEN DmTypes
    ELSE IF filter_type = "groups" THEN GroupTypes
    ELSE ChanTypes

FilterInputs == {"all", "dms", "groups", "channels"}

\* slack_channels: the conversations of the kinds asked for
Channels ==
    \E filter_type \in FilterInputs, failAt \in EnumerationFailures :
        \E r \in {ListConversations(ClientState, now, directory,
                                    FilterTypes(filter_type), failAt)} :
        /\ Install(r.st)
        /\ lastOp' = [NoOp EXCEPT !.op = "channels", !.what = filter_type,
                                  !.kind = IF r.ok THEN "ok" ELSE "SlackApiError",
                                  !.listing = r.conversations]
        /\ UNCHANGED <<now, directory, history, lastList, lastFull, paging>>

NextRead == History \/ GetUser \/ Channels \/ FindDm

SpecRead == InitRead /\ [][NextRead]_vars

(***************************************************************************)
(* Text for display: truncate_text.                                        *)
(***************************************************************************)
Digits == {"0","1","2","3","4","5","6","7","8","9"}

\* \w
WordChar(c) == c \in Range(LowerChars) \cup Range(UpperChars) \cup Digits \cup {"_"}

\* s[i..] starts with p
At(s, p, i) ==
    /\ i >= 1 /\ i + Len(p) - 1 <= Len(s)
    /\ \A k \in 1..Len(p) : s[i + k - 1] = p[k]

\* the end of the longest run of word characters from i (i - 1: none)
WordRunEnd(s, i) ==
    LET other == { k \in i..Len(s) : ~WordChar(s[k]) } IN
    IF other = {} THEN Len(s)
    ELSE (CHOOSE k \in other : \A l \in other : k <= l) - 1

\* the first place from i of a character of chars (0: none)
FirstOf(s, i, chars) ==
    LET hits == { k \in i..Len(s) : s[k] \in chars } IN
    IF hits = {} THEN 0 ELSE CHOOSE k \in hits : \A l \in hits : k <= l

Unmatched == [end |-> 0, sub |-> <<>>]

\* r"<@\w+>" at i, replaced by "@user"
MatchUser(s, i) ==
    IF ~At(s, <<"<","@">>, i) THEN Unmatched
    ELSE LET e == WordRunEnd(s, i + 2) IN
         IF e >= i + 2 /\ At(s, <<">">>, e + 1)
         THEN [end |-> e + 1, sub |-> <<"@","u","s","e","r">>]
         ELSE Unmatched

\* r"<#\w+\|([^>]+)>" at i, replaced by r"#\1"
MatchChannel(s, i) ==
    IF ~At(s, <<"<","#">>, i) THEN Unmatched
    ELSE LET e == WordRunEnd(s, i + 2)
             g == FirstOf(s, e + 2, {">"})
         IN IF e >= i + 2 /\ At(s, <<"|">>, e + 1) /\ g >= e + 3
            THEN [end |-> g, sub |-> <<"#">> \o SubSeq(s, e + 2, g - 1)]
            ELSE Unmatched

\* r"<([^|>]+)\|([^>]+)>" at i, replaced by r"\2"
MatchLabelled(s, i) ==
    IF ~At(s, <<"<">>, i) THEN Unmatched
    ELSE LET b == FirstOf(s, i + 1, {"|", ">"})
             g == FirstOf(s, b + 1, {">"})
         IN IF b >= i + 2 /\ s[b] = "|" /\ g >= b + 2
            THEN [end |-> g, sub |-> SubSeq(s, b + 1, g - 1)]
            ELSE Unmatched

\* r"<([^>]+)>" at i, replaced by r"\1"
MatchBracket(s, i) ==
    IF ~At(s, <<"<">>, i) THEN Unmatched
    ELSE LET g == FirstOf(s, i + 1, {">"}) IN
         IF g >= i + 2 THEN [end |-> g, sub |-> SubSeq(s, i + 1, g - 1)]
         ELSE Unmatched

Match(pattern, s, i) ==
    CASE pattern = "user" -> MatchUser(s, i)
      [] pattern = "channel" -> MatchChannel(s, i)
      [] pattern = "labelled" -> MatchLabelled(s, i)
      [] OTHER -> MatchBracket(s, i)

\* re.sub(pattern, repl, s): the matches from left to right, none overlapping
RECURSIVE SubFrom(_, _, _, _)
SubFrom(pattern, s, i, acc) ==
    IF i > Len(s) THEN acc
    ELSE Only({ IF m.end > 0 THEN SubFrom(pattern, s, m.end + 1, acc \o m.sub)
                ELSE SubFrom(pattern, s, i + 1, Append(acc, s[i]))
                : m \in {IF s[i] = "<" THEN Match(pattern, s, i) ELSE Unmatched} })

ReSub(pattern, s) == SubFrom(pattern, s, 1, <<>>)

\* " ".join(text.split())
RECURSIVE CollapseFrom(_, _, _)
CollapseFrom(s, i, acc) ==
    IF i > Len(s) THEN acc
    ELSE IF s[i] \in Whitespace THEN CollapseFrom(s, i + 1, acc)
    ELSE IF acc # <<>> /\ s[i - 1] \in Whitespace
         THEN CollapseFrom(s, i + 1, acc \o <<" ", s[i]>>)
         ELSE CollapseFrom(s, i + 1, Append(acc, s[i]))

Collapse(s) == CollapseFrom(s, 1, <<>>)

\* s[:k], k of either sign
SliceTo(s, k) ==
    IF k >= 0 THEN SubSeq(s, 1, IF k < Len(s) THEN k ELSE Len(s))
    ELSE IF Len(s) + k > 0 THEN SubSeq(s, 1, Len(s) + k)
    ELSE <<>>

\* lines 91-98: the text with its markup rewritten and its whitespace collapsed
Rewritten(text) ==
    Collapse(ReSub("bracket", ReSub("labelled", ReSub("channel", ReSub("user", text)))))

\* truncate_text(text, max_len)
truncate_text(text, max_len) ==
    Only({ IF Len(t) <= max_len THEN t
           ELSE SliceTo(t, max_len - 3) \o <<".",".",".">>
           : t \in {Rewritten(text)} })

\* the default of max_len
truncate_default == 100

(***************************************************************************)
(* Scans: the unread computation and the summaries.                        *)
(***************************************************************************)
U3 == <<"U","3">>
U4 == <<"U","4">>
U5 == <<"U","5">>
U6 == <<"U","6">>

Dm(id, user, last_read) ==
    [id |-> id, name |-> <<>>, is_im |-> "true", is_mpim |-> Absent,
     is_private |-> Absent, user |-> user, is_archived |-> Absent,
     last_read |-> last_read]

Chan(id, name, is_private, last_read) ==
    [id |-> id, name |-> name, is_im |-> Absent, is_mpim |-> "false",
     is_private |-> is_private, user |-> <<>>, is_archived |-> "false",
     last_read |-> last_read]

dSmall == <<rDev, rJenny, rDevP, rJen, rGroup>>

\* a workspace of six direct messages, six channels and a group conversation
dBig == << rJen, rDev, rJenny, rDevP, rGroup,
           Dm(<<"D","3">>, U3, <<2>>),
           Chan(<<"C","2">>, <<"o","p","s">>, "false", <<>>),
           Dm(<<"D","4">>, U4, <<6>>),
           Chan(<<"C","3">>, <<"w","e","b">>, "false", <<5>>),
           Dm(<<"D","5">>, U5, <<>>),
           Chan(<<"G","3">>, <<"s","e","c">>, "true", <<2>>),
           Dm(<<"D","6">>, U6, <<3>>),
           Chan(<<"C","4">>, <<"q","a">>, "false", <<6>>) >>

\* a workspace of eleven direct messages, eleven channels and a group
\* conversation
dMany == dBig \o
         << Dm(<<"D","7">>, <<"U","7">>, <<>>),
            Chan(<<"C","5">>, <<"c","5">>, "false", <<>>),
            Dm(<<"D","8">>, <<"U","8">>, <<5>>),
            Chan(<<"C","6">>, <<"c","6">>, "true", <<3>>),
            Dm(<<"D","9">>, <<"U","9">>, <<>>),
            Chan(<<"C","7">>, <<"c","7">>, "false", <<>>),
            Dm(<<"D","A">>, <<"U","A">>, <<2>>),
            Chan(<<"C","8">>, <<"c","8">>, "false", <<6>>),
            Dm(<<"D","B">>, <<"U","B">>, <<>>),
            Chan(<<"C","9">>, <<"c","9">>, "false", <<>>) >>

ScanDirectories == { dSmall, dBig, dMany }

tEta == Mention(U0) \o <<" ","e","t","a","?">>
tFyi == <<"f","y","i"," ">> \o Mention(U0)

tAck == Mention(U0) \o <<" ","o","k","?">>

tWhy == <<"w","h","y","?">>

hAsk == << Raw(6, tFyi, "", U2), Raw(5, tWhy, "", U1), Raw(4, tEta, "", U1),
           Raw(2, tAck, "", U2) >>

ScanHistories == { hPlain, hAdmin, hAsk }

\* the clock at the time of the scans
ScanTime == 3604

HoursInputs == {1, 24}

\* the conversation whose conversations.history fails, and how
BadInputs ==
    { [bad |-> <<>>, how |-> "ok"],
      [bad |-> <<"D","1">>, how |-> "ratelimited"],
      [bad |-> <<"D","1">>, how |-> "channel_not_found"],
      [bad |-> <<"G","1">>, how |-> "ratelimited"],
      [bad |-> <<"G","1">>, how |-> "channel_not_found"] }

\* the outcomes of the backend calls of a scan: the enumeration fails at
\* request failAt (0: not at all), conversations.history fails for bad
ScanOutcomes ==
    { [failAt |-> f, bad |-> b.bad, how |-> b.how] :
        f \in EnumerationFailures, b \in BadInputs } \
    { o \in [failAt : OpFailChoices, bad : {<<"D","1">>, <<"G","1">>},
             how : {"ratelimited", "channel_not_found"}] : o.failAt # 0 }

AllSucceed(o) == o.failAt = 0 /\ o.bad = <<>>

\* the outcomes of the calls of get_messages(channel_id, ...) within a scan
ScanOutcome(o, channel_id) ==
    [hist |-> IF channel_id = o.bad THEN o.how ELSE "ok", fetch |-> "ok",
     failing |-> {}, auth |-> "ok", post |-> "ok"]

\* msg.channel_name = name, for msg in messages
Named(messages, name) ==
    [i \in 1..Len(messages) |-> [channel_name |-> name] @@ messages[i]]

\* unread[key] = value on a dict kept in insertion order
Put(d, key, value) ==
    IF \E i \in 1..Len(d) : d[i].key = key
    THEN [i \in 1..Len(d) |-> IF d[i].key = key THEN [key |-> key, value |-> value]
                              ELSE d[i]]
    ELSE Append(d, [key |-> key, value |-> value])

\* a get_messages call, as the scans record it
Fetch(channel_id, limit, oldest) ==
    [channel |-> channel_id, limit |-> limit, oldest |-> oldest]

\* time.time() - (hours * 3600)
Cutoff(t, hours) == t - hours * 3600

OldestCutoff(conv, cutoff) == cutoff

\* line 276: float(conv.last_read) if conv.last_read else cutoff
Oldest(conv, cutoff) ==
    IF conv.last_read # <<>> THEN conv.last_read[1] ELSE cutoff

\* one turn of the loop of get_unread_messages: an archived conversation is
\* passed over, the others are fetched since last_read or the cutoff; a
\* fetch that raises ends the scan
ScanUnreadOne(acc, hist, conv, cutoff, o) ==
    IF acc.kind # "ok" \/ conv.is_archived THEN acc
    ELSE LET oldest == Oldest(conv, cutoff)
             fetches == Append(acc.fetches, Fetch(conv.id, 50, oldest))
         IN
         Only({
             IF m.kind # "ok"
             THEN [kind |-> m.kind, unread |-> <<>>, fetches |-> fetches, st |-> m.st]
             ELSE [kind |-> "ok",
                   unread |-> IF m.messages # <<>>
                              THEN Put(acc.unread, conv.name,
                                       Named(m.messages, conv.name))
                              ELSE acc.unread,
                   fetches |-> fetches, st |-> m.st]
             : m \in {get_messages(acc.st, hist, conv.id, 50, oldest, 0,
                                   ScanOutcome(o, conv.id))} })

\* the loop of get_unread_messages over convs[lo..hi], in order
RECURSIVE ScanUnread(_, _, _, _, _, _, _)
ScanUnread(acc, hist, convs, lo, hi, cutoff, o) ==
    IF lo > hi THEN acc
    ELSE IF lo = hi THEN ScanUnreadOne(acc, hist, convs[lo], cutoff, o)
    ELSE LET mid == (lo + hi) \div 2 IN
         Only({ ScanUnread(first, hist, convs, mid + 1, hi, cutoff, o)
                : first \in {ScanUnread(acc, hist, convs, lo, mid, cutoff, o)} })

\* get_unread_messages(hours) at time t
get_unread_messages(st, t, dir, hist, hours, o) ==
    Only({ IF ~r.ok
           THEN [kind |-> "SlackApiError", unread |-> <<>>, fetches |-> <<>>, st |-> r.st]
           ELSE ScanUnread([kind |-> "ok", unread |-> <<>>, fetches |-> <<>>,
                            st |-> r.st],
                           hist, r.conversations, 1, Len(r.conversations),
                           Cutoff(t, hours), o)
           : r \in {ListConversations(st, t, dir, AllTypes, o.failAt)} })

\* line 265: the parameters get_unread_messages accepts by keyword
UnreadParameters == {"hours"}

\* line 361: the keywords slack_unread passes
UnreadKeywords == {"hours", "max_dms", "max_channels"}

\* a call binds when every keyword names a parameter; else TypeError
Binds(parameters, keywords) == keywords \subseteq parameters

\* the slack_unread branch of _handle_tool
slack_unread(st, t, dir, hist, hours, o) ==
    IF ~Binds(UnreadParameters, UnreadKeywords)
    THEN [kind |-> "TypeError", text |-> "", unread |-> <<>>, fetches |-> <<>>,
          st |-> st]
    ELSE Only({ [kind |-> u.kind,
                 text |-> IF u.kind # "ok" THEN ""
                          ELSE IF u.unread = <<>> THEN "No unread messages."
                          ELSE "Unread messages:",
                 unread |-> u.unread, fetches |-> u.fetches, st |-> u.st]
                : u \in {get_unread_messages(st, t, dir, hist, hours, o)} })

\* call_tool: an exception of the handler becomes an error result
call_tool(r) == IF r.kind # "ok" THEN "Error:" ELSE r.text

\* the timestamps of the messages of every entry of a mapping
Stamps(unread) ==
    [i \in 1..Len(unread) |->
        [key |-> unread[i].key,
         ts |-> [j \in 1..Len(unread[i].value) |-> unread[i].value[j].ts],
         names |-> {unread[i].value[j].channel_name : j \in 1..Len(unread[i].value)}]]

InitScan ==
    /\ now = ScanTime
    /\ directory \in ScanDirectories
    /\ history \in ScanHistories
    /\ cache = [set |-> FALSE, convs |-> <<>>]
    /\ cacheTime = 0
    /\ userCache = <<>>
    /\ myUserId = <<>>
    /\ lookups = <<>>
    /\ lastList = NoList
    /\ lastFull = NoFull
    /\ paging = NoPaging
    /\ lastOp = NoOp

\* the client's unread computation: get_unread_messages(hours)
Unread ==
    \E view \in {View(ClientState, now, directory)} :
    \E hours \in HoursInputs, o \in ScanOutcomes :
        \E r \in {get_unread_messages(ClientState, now, directory, history, hours, o)} :
        /\ Install(r.st)
        /\ lastOp' = [NoOp EXCEPT !.op = "unread", !.kind = r.kind, !.hours = hours,
                                  !.view = view,
                                  !.reads = IF AllSucceed(o) THEN "ok" ELSE "error",
                                  !.bad = o.bad, !.how = o.how,
                                  !.fetches = r.fetches,
                                  !.unread = Stamps(r.unread)]
        /\ UNCHANGED <<now, directory, history, lastList, lastFull, paging>>

\* the slack_unread tool, through call_tool
UnreadTool ==
    \E hours \in HoursInputs, o \in ScanOutcomes :
        \E r \in {slack_unread(ClientState, now, directory, history, hours, o)} :
        /\ Install(r.st)
        /\ lastOp' = [NoOp EXCEPT !.op = "slack_unread", !.kind = r.kind,
                                  !.hours = hours,
                                  !.reads = IF AllSucceed(o) THEN "ok" ELSE "error",
                                  !.bad = o.bad, !.how = o.how,
                                  !.fetches = r.fetches,
                                  !.unread = Stamps(r.unread),
                                  !.text = call_tool(r)]
        /\ UNCHANGED <<now, directory, history, lastList, lastFull, paging>>

\* [c for c in conversations if c.type in types]
OfType(convs, types) == SelectSeq(convs, LAMBDA c : c.type \in types)

FirstFiveOrMore(convs) == convs

FirstNOrMore(convs, n) == convs

\* convs[:5]
FirstFive(convs) == SubSeq(convs, 1, IF Len(convs) < 5 THEN Len(convs) ELSE 5)

\* convs[:n]
FirstN(convs, n) == SubSeq(convs, 1, IF Len(convs) < n THEN Len(convs) ELSE n)

\* a message's place in a list sorted newest first: after those as new
InsertByTs(sorted, msg) ==
    LET k == Cardinality({ i \in 1..Len(sorted) : sorted[i].ts >= msg.ts }) IN
    SubSeq(sorted, 1, k) \o <<msg>> \o SubSeq(sorted, k + 1, Len(sorted))

RECURSIVE SortInto(_, _, _)
SortInto(sorted, msgs, i) ==
    IF i > Len(msgs) THEN sorted
    ELSE SortInto(InsertByTs(sorted, msgs[i]), msgs, i + 1)

Unsorted(msgs) == msgs

\* msgs.sort(key=lambda m: m.ts, reverse=True): stable
SortNewestFirst(msgs) == SortInto(<<>>, msgs, 1)

\* [m for m in messages if m.is_mention]
MentionsOf(messages) == SelectSeq(messages, LAMBDA m : m.is_mention)

\* lines 118-124: the loop of quick_summary over dm_convs[:5]
RECURSIVE ScanQuickDms(_, _, _, _, _, _, _, _, _)
ScanQuickDms(st, hist, convs, i, cutoff, dm_messages, fetches, names, o) ==
    IF i > Len(convs)
    THEN [kind |-> "ok", dm_messages |-> dm_messages, fetches |-> fetches,
          names |-> names, st |-> st]
    ELSE LET conv == convs[i] IN
         Only({
             IF m.kind # "ok"
             THEN [kind |-> m.kind, dm_messages |-> <<>>,
                   fetches |-> Append(fetches, Fetch(conv.id, 3, cutoff)),
                   names |-> names, st |-> m.st]
             ELSE Only({
                 ScanQuickDms(n.st, hist, convs, i + 1, cutoff,
                     dm_messages \o Named(m.messages, n.name),
                     Append(fetches, Fetch(conv.id, 3, cutoff)),
                     Append(names, conv.id), o)
                 : n \in {resolve_dm_name(m.st, conv, {})} })
             : m \in {get_messages(st, hist, conv.id, 3, cutoff, 0,
                                   ScanOutcome(o, conv.id))} })

\* lines 139-144: the loop of quick_summary over channel_convs[:5]
RECURSIVE ScanQuickChannels(_, _, _, _, _, _, _, _)
ScanQuickChannels(st, hist, convs, i, cutoff, mentions, fetches, o) ==
    IF i > Len(convs)
    THEN [kind |-> "ok", mentions |-> mentions, fetches |-> fetches, st |-> st]
    ELSE LET conv == convs[i] IN
         Only({
             IF m.kind # "ok"
             THEN [kind |-> m.kind, mentions |-> <<>>,
                   fetches |-> Append(fetches, Fetch(conv.id, 20, cutoff)), st |-> m.st]
             ELSE ScanQuickChannels(m.st, hist, convs, i + 1, cutoff,
                      mentions \o Named(MentionsOf(m.messages), conv.name),
                      Append(fetches, Fetch(conv.id, 20, cutoff)), o)
             : m \in {get_messages(st, hist, conv.id, 20, cutoff, 0,
                                   ScanOutcome(o, conv.id))} })

NoQuick == [kind |-> "none", recent |-> <<>>, mentions |-> <<>>, channels |-> 0,
            dms |-> 0, fetches |-> <<>>, names |-> <<>>]

\* quick_summary(client, hours) at time t: the direct messages and the
\* mentions it lists, and the counts of its last line
quick_summary(st, t, dir, hist, hours, o) ==
    LET cutoff == Cutoff(t, hours) IN
    Only({
        IF ~r.ok
        THEN [NoQuick EXCEPT !.kind = "SlackApiError"] @@ [st |-> r.st]
        ELSE LET dm_convs == OfType(r.conversations, {"dm"})
                 channel_convs == OfType(r.conversations, {"channel", "group"})
             IN
             Only({
                 IF d.kind # "ok"
                 THEN [NoQuick EXCEPT !.kind = d.kind, !.fetches = d.fetches,
                                      !.names = d.names] @@ [st |-> d.st]
                 ELSE Only({
                     IF c.kind # "ok"
                     THEN [NoQuick EXCEPT !.kind = c.kind, !.fetches = c.fetches,
                                          !.names = d.names] @@ [st |-> c.st]
                     ELSE [kind |-> "ok",
                           recent |-> FirstN(SortNewestFirst(d.dm_messages), 10),
                           mentions |-> FirstN(c.mentions, 10),
                           channels |-> Len(channel_convs), dms |-> Len(dm_convs),
                           fetches |-> c.fetches, names |-> d.names, st |-> c.st]
                     : c \in {ScanQuickChannels(d.st, hist, FirstFive(channel_convs), 1,
                                                cutoff, <<>>, d.fetches, o)} })
                 : d \in {ScanQuickDms(r.st, hist, FirstFive(dm_convs), 1, cutoff,
                                       <<>>, <<>>, <<>>, o)} })
        : r \in {ListConversations(st, t, dir, AllTypes, o.failAt)} })

\* the conversation and the time of each message of a list
Shown(messages) ==
    [k \in 1..Len(messages) |->
        [channel_name |-> messages[k].channel_name, ts |-> messages[k].ts]]

\* slack_summary in quick mode: quick_summary(client, hours)
Quick ==
    \E view \in {View(ClientState, now, directory)} :
    \E hours \in HoursInputs, o \in ScanOutcomes :
        \E r \in {quick_summary(ClientState, now, directory, history, hours, o)} :
        /\ Install(r.st)
        /\ lastOp' = [NoOp EXCEPT !.op = "quick", !.kind = r.kind, !.hours = hours,
                                  !.view = view,
                                  !.reads = IF AllSucceed(o) THEN "ok" ELSE "error",
                                  !.bad = o.bad, !.how = o.how,
                                  !.fetches = r.fetches, !.names = r.names,
                                  !.recent = Shown(r.recent),
                                  !.mentions = Shown(r.mentions),
                                  !.counts = <<r.channels, r.dms>>]
        /\ UNCHANGED <<now, directory, history, lastList, lastFull, paging>>

EndsInQuestionNever(text) == FALSE

\* re.search(r"\?$", text)
EndsInQuestion(text) ==
    \/ Len(text) >= 1 /\ text[Len(text)] = "?"
    \/ Len(text) >= 2 /\ text[Len(text)] = "\n" /\ text[Len(text) - 1] = "?"

QuestionStarts ==
    { <<"c","a","n">>, <<"c","o","u","l","d">>, <<"w","o","u","l","d">>,
      <<"w","i","l","l">>, <<"d","o">>, <<"d","o","e","s">>,
      <<"d","i","d">>, <<"i","s">>, <<"a","r","e">>,
      <<"h","a","v","e">>, <<"h","a","s">>, <<"s","h","o","u","l","d">> }

\* re.search(r"^(can|could|...|should)\s", text)
StartsAsQuestion(text) ==
    \E w \in QuestionStarts :
        StartsWith(text, w) /\ Len(text) > Len(w) /\ text[Len(w) + 1] \in Whitespace

\* re.search(r"(please|pls)\s", text)
SaysPlease(text) ==
    \E w \in {<<"p","l","e","a","s","e">>, <<"p","l","s">>}, c \in Whitespace :
        Contains(text, w \o <<c>>)

\* re.search(r"(need|needs)\s+(you|your)", text)
NeedsYou(text) ==
    \E i \in 1..Len(text) :
        /\ At(text, <<"n","e","e","d">>, i)
        /\ \E j \in {i + 4} \cup (IF At(text, <<"s">>, i + 4) THEN {i + 5} ELSE {}) :
           \E k \in (j + 1)..Len(text) :
               /\ \A l \in j..(k - 1) : text[l] \in Whitespace
               /\ At(text, <<"y","o","u">>, k)

RequestWords ==
    { <<"r","e","v","i","e","w">>, <<"c","h","e","c","k">>, <<"l","o","o","k"," ","a","t">>,
      <<"t","a","k","e"," ","a"," ","l","o","o","k">>, <<"t","h","o","u","g","h","t","s","?">>, <<"o","p","i","n","i","o","n","?">>,
      <<"i","n","p","u","t","?">>, <<"f","e","e","d","b","a","c","k","?">>, <<"w","h","e","n"," ","c","a","n">>,
      <<"w","h","e","n"," ","w","i","l","l">>, <<"w","h","e","n"," ","c","o","u","l","d">>, <<"e","t","a">> }

\* the remaining patterns, each a search for one of a few literal strings
SaysRequest(text) == \E w \in RequestWords : Contains(text, w)

ActionWhateverMentioned(message, user_id) ==
    LET text == Lower(message.text) IN
    \/ EndsInQuestion(text)
    \/ StartsAsQuestion(text)
    \/ SaysPlease(text)
    \/ NeedsYou(text)
    \/ SaysRequest(text)

\* is_action_item(message, my_user_id)
is_action_item(message, user_id) ==
    LET text == Lower(message.text) IN
    IF ~Contains(message.text, Mention(user_id)) THEN FALSE
    ELSE \/ EndsInQuestion(text)
         \/ StartsAsQuestion(text)
         \/ SaysPlease(text)
         \/ NeedsYou(text)
         \/ SaysRequest(text)

\* lines 186-192: the loop of summarize_workspace over dm_convs[:10]
RECURSIVE ScanDms10(_, _, _, _, _, _, _, _)
ScanDms10(st, hist, convs, i, cutoff, dms, fetches, o) ==
    IF i > Len(convs)
    THEN [kind |-> "ok", dms |-> dms, fetches |-> fetches, st |-> st]
    ELSE LET conv == convs[i] IN
         Only({
             IF m.kind # "ok"
             THEN [kind |-> m.kind, dms |-> <<>>,
                   fetches |-> Append(fetches, Fetch(conv.id, 5, cutoff)), st |-> m.st]
             ELSE ScanDms10(m.st, hist, convs, i + 1, cutoff,
                      dms \o Named(m.messages, conv.name),
                      Append(fetches, Fetch(conv.id, 5, cutoff)), o)
             : m \in {get_messages(st, hist, conv.id, 5, cutoff, 0,
                                   ScanOutcome(o, conv.id))} })

\* lines 210-231: what one scanned channel with messages adds to the summary
WithChannel(sum, conv, messages, user_id) ==
    LET named == Named(messages, conv.name)
        action_items == SelectSeq(named, LAMBDA m : is_action_item(m, user_id))
    IN [mentions |-> sum.mentions \o MentionsOf(named),
        action_items |-> sum.action_items \o action_items,
        channels |-> Append(sum.channels,
                        [name |-> conv.name, message_count |-> Len(messages),
                         has_mentions |-> \E k \in 1..Len(messages) : messages[k].is_mention,
                         has_action_items |-> Len(action_items) > 0,
                         preview |-> truncate_text(messages[1].text, truncate_default),
                         top_messages |-> Shown(FirstN(named, 3))]),
        channel_message_count |-> sum.channel_message_count + Len(messages)]

\* lines 203-231: the loop of summarize_workspace over channel_convs[:max_channels]
RECURSIVE ScanChannels(_, _, _, _, _, _, _)
ScanChannels(st, hist, convs, i, sum, fetches, o) ==
    IF i > Len(convs)
    THEN [kind |-> "ok", sum |-> sum, fetches |-> fetches, st |-> st]
    ELSE LET conv == convs[i] IN
         Only({
             IF m.kind # "ok"
             THEN [kind |-> m.kind, sum |-> sum,
                   fetches |-> Append(fetches, Fetch(conv.id, 50, 0)), st |-> m.st]
             ELSE IF m.messages = <<>>
             THEN ScanChannels(m.st, hist, convs, i + 1, sum,
                               Append(fetches, Fetch(conv.id, 50, 0)), o)
             ELSE Only({
                 ScanChannels(me.st, hist, convs, i + 1,
                              WithChannel(sum, conv, m.messages, me.id),
                              Append(fetches, Fetch(conv.id, 50, 0)), o)
                 : me \in {my_user_id(m.st, "ok")} })
             : m \in {get_messages(st, hist, conv.id, 50, 0, 0,
                                   ScanOutcome(o, conv.id))} })

\* a channel summary's place in a list sorted by message_count, largest first
InsertByCount(sorted, c) ==
    LET k == Cardinality({ i \in 1..Len(sorted) :
                             sorted[i].message_count >= c.message_count }) IN
    SubSeq(sorted, 1, k) \o <<c>> \o SubSeq(sorted, k + 1, Len(sorted))

RECURSIVE SortChannelsInto(_, _, _)
SortChannelsInto(sorted, channels, i) ==
    IF i > Len(channels) THEN sorted
    ELSE SortChannelsInto(InsertByCount(sorted, channels[i]), channels, i + 1)

NoSummary == [dm_count |-> 0, mention_count |-> 0, channel_message_count |-> 0,
              action_items |-> <<>>, dms |-> <<>>, mentions |-> <<>>,
              channels |-> <<>>]

\* summarize_workspace(client, hours, max_channels) at time t
summarize_workspace(st, t, dir, hist, hours, max_channels, o) ==
    LET cutoff == Cutoff(t, hours) IN
    Only({
        IF ~r.ok
        THEN [kind |-> "SlackApiError", summary |-> NoSummary, fetches |-> <<>>,
              st |-> r.st]
        ELSE LET dm_convs == OfType(r.conversations, {"dm"})
                 channel_convs == OfType(r.conversations, {"channel", "group"})
             IN
             Only({
                 IF d.kind # "ok"
                 THEN [kind |-> d.kind, summary |-> NoSummary, fetches |-> d.fetches,
                       st |-> d.st]
                 ELSE Only({
                     IF c.kind # "ok"
                     THEN [kind |-> c.kind, summary |-> NoSummary,
                           fetches |-> c.fetches, st |-> c.st]
                     ELSE [kind |-> "ok",
                           summary |->
                             [dm_count |-> Len(d.dms),
                              dms |-> FirstN(SortNewestFirst(d.dms), 20),
                              mentions |-> SortNewestFirst(c.sum.mentions),
                              mention_count |-> Len(c.sum.mentions),
                              action_items |-> SortNewestFirst(c.sum.action_items),
                              channels |-> SortChannelsInto(<<>>, c.sum.channels, 1),
                              channel_message_count |-> c.sum.channel_message_count],
                           fetches |-> c.fetches, st |-> c.st]
                     : c \in {ScanChannels(d.st, hist, FirstN(channel_convs, max_channels),
                                  1, [mentions |-> <<>>, action_items |-> <<>>,
                                      channels |-> <<>>, channel_message_count |-> 0],
                                  d.fetches, o)} })
                 : d \in {ScanDms10(r.st, hist, FirstN(dm_convs, 10), 1, cutoff,
                                    <<>>, <<>>, o)} })
        : r \in {ListConversations(st, t, dir, AllTypes, o.failAt)} })

MaxChannelsInputs == {3, 10}

\* the summary as recorded: its lists by conversation and time
Recorded(summary) ==
    [summary EXCEPT !.dms = Shown(summary.dms), !.mentions = Shown(summary.mentions),
                    !.action_items = Shown(summary.action_items)]

\* slack_summary in full mode: summarize_workspace(client, hours, max_channels)
Summarize ==
    \E view \in {View(ClientState, now, directory)} :
    \E hours \in HoursInputs, max_channels \in MaxChannelsInputs, o \in ScanOutcomes :
        \E r \in {summarize_workspace(ClientState, now, directory, history, hours,
                                      max_channels, o)} :
        /\ Install(r.st)
        /\ lastOp' = [NoOp EXCEPT !.op = "summary", !.kind = r.kind, !.hours = hours,
                                  !.limit = max_channels, !.view = view,
                                  !.reads = IF AllSucceed(o) THEN "ok" ELSE "error",
                                  !.bad = o.bad, !.how = o.how,
                                  !.fetches = r.fetches,
                                  !.summary = Recorded(r.summary)]
        /\ UNCHANGED <<now, directory, history, lastList, lastFull, paging>>

NextScan == Unread \/ UnreadTool \/ Quick \/ Summarize

SpecScan == InitScan /\ [][NextScan]_vars

(***************************************************************************)
(* Text for display, on its own: truncate_text over a set of texts and     *)
(* widths.                                                                 *)
(***************************************************************************)
Texts ==
    { <<>>,
      <<"a","b","c","d">>,
      <<"a","b","c","d","e","f","g","h","i","j">>,
      <<"a"," "," ","b","\n"," ","c"," ">>,
      <<"<","@","U","1",">"," ","h","i"," ","t","h","e","r","e">>,
      <<"<","#","C","1","|","d","e","v",">"," ","i","s"," ","u","p">>,
      <<"<","h","t","t","p",":","/","/","x","|","t","h","e"," ","l","i","n","k",">">>,
      <<"<","h","t","t","p",":","/","/","x",">">>,
      <<"<","<","a",">">>,
      <<"<","@","U","1">>,
      <<"<","@",">","x">>,
      <<" "," ">>,
      <<"a","b"," ","c","d"," ","e","f">> }

\* the widths asked for are 0..MaxWidth
MaxWidth == 8

InitText ==
    /\ now = 0
    /\ directory = <<>>
    /\ history = <<>>
    /\ cache = [set |-> FALSE, convs |-> <<>>]
    /\ cacheTime = 0
    /\ userCache = <<>>
    /\ myUserId = <<>>
    /\ lookups = <<>>
    /\ lastList = NoList
    /\ lastFull = NoFull
    /\ paging = NoPaging
    /\ \E text \in Texts, max_len \in 0..MaxWidth :
           lastOp = [NoOp EXCEPT !.op = "text", !.ref = text, !.limit = max_len]

\* truncate_text(text, max_len)
Truncate ==
    /\ lastOp.op = "text"
    /\ lastOp' = [lastOp EXCEPT !.op = "truncate_text",
                                !.value = truncate_text(lastOp.ref, lastOp.limit)]
    /\ UNCHANGED <<now, directory, history, cache, cacheTime, userCache, myUserId, lookups, lastList, lastFull, paging>>

NextText == Truncate

SpecText == InitText /\ [][NextText]_vars

(***************************************************************************)
(* Classification, on its own: _get_conversation_type over every           *)
(* combination of the backend's flags.                                     *)
(***************************************************************************)
\* a flag of a response: true, false, null, or left out
FlagValues == {"true", "false", "null", Absent}

Flagged(is_im, is_mpim, is_private) ==
    [id |-> <<"X","1">>, name |-> <<"x">>, is_im |-> is_im, is_mpim |-> is_mpim,
     is_private |-> is_private, user |-> <<>>, is_archived |-> "false",
     last_read |-> <<>>]

InitKind ==
    /\ now = 0
    /\ \E is_im \in FlagValues, is_mpim \in FlagValues, is_private \in FlagValues :
           directory = <<Flagged(is_im, is_mpim, is_private)>>
    /\ history = <<>>
    /\ cache = [set |-> FALSE, convs |-> <<>>]
    /\ cacheTime = 0
    /\ userCache = <<>>
    /\ myUserId = <<>>
    /\ lookups = <<>>
    /\ lastList = NoList
    /\ lastFull = NoFull
    /\ paging = NoPaging
    /\ lastOp = NoOp

\* _get_conversation_type(conv) on the backend's conversation
Classify ==
    /\ lastOp' = [NoOp EXCEPT !.op = "classify",
                              !.what = _get_conversation_type(directory[1])]
    /\ UNCHANGED <<now, directory, history, cache, cacheTime, userCache, myUserId, lookups, lastList, lastFull, paging>>

NextKind == Classify

SpecKind == InitKind /\ [][NextKind]_vars

(***************************************************************************)
(* The enumeration page by page: the while loop of get_conversations, one  *)
(* request at a time, while time passes and the backend changes.           *)
(***************************************************************************)
\* lines 124-136: the conversations of a response
Converted(channels) == [i \in 1..Len(channels) |-> Conversation(channels[i])]

LastPageAlways(response) == TRUE

\* lines 138-140: the response carries no cursor
LastPage(response) == response.next_cursor = 0

LeftByBreakOrError(outcome, response) == outcome # "ok" \/ LastPage(response)

\* line 143 is reached: the request returned and the loop was left by break
LeftByBreak(outcome, response) == outcome = "ok" /\ LastPage(response)

\* a caller enters get_conversations(types): it returns from a fresh cache,
\* or the loop begins
Begin ==
    /\ ~paging.active
    /\ \E types \in TypesInputs :
        IF CacheFresh(cache, cacheTime, now, TRUE)
        THEN /\ lastList' = [valid |-> TRUE, n |-> 1 - lastList.n, time |-> now,
                             types |-> types, ok |-> TRUE, calls |-> 0,
                             conversations |-> FilterType(cache.convs, Allowed(types))]
             /\ paging' = NoPaging
        ELSE /\ paging' = [NoPaging EXCEPT !.active = TRUE, !.types = types,
                              !.before = [cache |-> cache, cacheTime |-> cacheTime]]
             /\ lastList' = lastList
    /\ UNCHANGED <<now, directory, history, cache, cacheTime, userCache, myUserId, lookups, lastFull, lastOp>>

\* one turn of the loop: conversations_list(cursor=cursor) returns a page or
\* raises SlackApiError
RequestPage ==
    /\ paging.active
    /\ \E outcome \in {"ok", "error"} :
       \E response \in {conversations_list(directory, paging.types, paging.cursor)} :
        LET requests == Append(paging.requests, paging.cursor)
            conversations == paging.conversations \o Converted(response.channels)
        IN
        IF outcome = "ok" /\ ~LastPage(response)
        THEN /\ paging' = [paging EXCEPT !.cursor = response.next_cursor,
                                         !.conversations = conversations,
                                         !.requests = requests,
                                         !.pages = Append(paging.pages, response)]
             /\ UNCHANGED <<cache, cacheTime, lastList, lastFull>>
        ELSE /\ paging' =
                   IF outcome = "ok"
                   THEN [paging EXCEPT !.active = FALSE, !.outcome = "ok",
                                       !.conversations = conversations,
                                       !.requests = requests,
                                       !.pages = Append(paging.pages, response)]
                   ELSE [paging EXCEPT !.active = FALSE, !.outcome = "error",
                                       !.requests = requests]
             /\ cache' = IF LeftByBreak(outcome, response) /\ ShouldCache(paging.types)
                         THEN [set |-> TRUE,
                               convs |-> IF outcome = "ok" THEN conversations
                                         ELSE paging.conversations]
                         ELSE cache
             /\ cacheTime' = IF LeftByBreak(outcome, response) /\ ShouldCache(paging.types)
                             THEN now ELSE cacheTime
             /\ lastList' = [valid |-> TRUE, n |-> 1 - lastList.n, time |-> now,
                             types |-> paging.types, ok |-> outcome = "ok",
                             calls |-> Len(requests),
                             conversations |-> IF outcome = "ok" THEN conversations
                                               ELSE <<>>]
             /\ lastFull' = IF outcome = "ok" /\ paging.types = AllTypes
                            THEN [valid |-> TRUE, time |-> now,
                                  conversations |-> conversations]
                            ELSE lastFull
    /\ UNCHANGED <<now, directory, history, userCache, myUserId, lookups, lastOp>>

NextPages == Wait \/ BackendChange \/ Begin \/ RequestPage

SpecPages == Init /\ [][NextPages]_vars

\* the loop goes on: every request returns or raises
SpecPagesFair == SpecPages /\ WF_vars(RequestPage)

(***************************************************************************)
(* Properties of the conversation directory (checked under Spec).          *)
(***************************************************************************)

\* the step is a get_conversations call of a caller
ListStep == lastList'.n # lastList.n

\* the cached listing was fresh at the previous list call and is stale now
ExpiredBetween ==
    /\ cache.set
    /\ lastList.time - cacheTime < cache_ttl
    /\ now - cacheTime >= cache_ttl

\* a conversation is of a kind the caller asked for
Requested(conv, types) ==
    \/ conv.type = "channel" /\ "public_channel" \in Range(types)
    \/ conv.type = "group" /\ "private_channel" \in Range(types)
    \/ conv.type = "mpim" /\ "mpim" \in Range(types)
    \/ conv.type = "dm" /\ "im" \in Range(types)

RECURSIVE OfRequestedKind(_, _)
OfRequestedKind(convs, types) ==
    IF convs = <<>> THEN <<>>
    ELSE IF Requested(Head(convs), types)
         THEN <<Head(convs)>> \o OfRequestedKind(Tail(convs), types)
         ELSE OfRequestedKind(Tail(convs), types)

\* C1: of two successive list calls with different kind filters, the second
\* made less than 300 seconds after the first (which succeeded) and with no
\* cache expiry in between, the second is served from the cache and at most
\* one of the two enumerates the backend, whatever the first call's filter.
C1_SecondCallServedFromCache ==
    [][ ( /\ ListStep
          /\ lastList.valid /\ lastList.ok
          /\ lastList'.types # lastList.types
          /\ lastList'.time - lastList.time < cache_ttl
          /\ ~ExpiredBetween )
        => /\ lastList'.calls = 0
           /\ (IF lastList.calls > 0 THEN 1 ELSE 0)
                + (IF lastList'.calls > 0 THEN 1 ELSE 0) <= 1 ]_vars

\* C2: a populated cache holds the complete listing (every page) of the
\* latest enumeration that requested all four kinds, stamped with its time;
\* an enumeration of a subset of kinds never writes it, so filtering the
\* cache by any kind filter keeps every conversation of a requested kind
\* that this enumeration returned.
C2_CacheHoldsFullEnumeration ==
    cache.set =>
        /\ lastFull.valid
        /\ cache.convs = lastFull.conversations
        /\ cacheTime = lastFull.time
        /\ \A types \in TypesInputs :
               FilterType(cache.convs, Allowed(types))
                   = OfRequestedKind(lastFull.conversations, types)

\* C2 witness: with a multi-page listing cached, a later enumeration of a
\* subset of kinds went to the backend, returned something else, and left
\* the cache as it was.
C2_Witness ==
    /\ cache.set /\ Len(cache.convs) > PageSize
    /\ lastList.valid /\ lastList.ok /\ lastList.calls > 0
    /\ lastList.types # AllTypes
    /\ lastList.conversations # cache.convs
    /\ lastList.time > cacheTime

\* C3: once an enumeration of all kinds has succeeded (whatever it returned,
\* an empty listing included), a list call less than 300 seconds later
\* issues no backend call and returns the cached conversations of the
\* requested kinds in cached order, and a list call at or after 300 seconds
\* enumerates the backend again.
C3_FreshListingServedFromCache ==
    [][ (ListStep /\ lastFull.valid)
        => IF now - lastFull.time < cache_ttl
           THEN /\ lastList'.calls = 0
                /\ lastList'.conversations
                       = OfRequestedKind(lastFull.conversations, lastList'.types)
           ELSE lastList'.calls > 0 ]_vars

(***************************************************************************)
(* Properties of reference resolution (checked under SpecResolve).         *)
(***************************************************************************)

\* the smallest index of a non-empty set of indices
First(S) == CHOOSE i \in S : \A j \in S : i <= j

\* a reference with one leading '#' removed
Unhashed(ref) == IF ref # <<>> /\ Head(ref) = "#" THEN Tail(ref) ELSE ref

\* the display name a direct-message conversation resolves to: '@' and the
\* real name of its user's profile
DisplayName(conv) ==
    IF StartsWith(conv.name, UserPrefix)
    THEN <<"@">> \o Profile(DropFirst(conv.name, Len(UserPrefix))).real_name
    ELSE conv.name

\* C8: an '@'-prefixed reference resolves to the first direct-message
\* conversation, in directory order, whose resolved display name contains the
\* handle case-insensitively, and to a resolution failure when there is none.
C8_HandleMatchesResolvedName ==
    (lastOp.op = "resolve" /\ lastOp.what = "dm" /\ lastOp.kind # "SlackApiError") =>
        LET handle == Lower(Tail(Unhashed(lastOp.ref)))
            hits == {i \in 1..Len(lastOp.view) :
                        /\ lastOp.view[i].type = "dm"
                        /\ Contains(Lower(DisplayName(lastOp.view[i])), handle)}
        IN IF hits = {}
           THEN lastOp.kind = "ValueError"
           ELSE lastOp.kind = "ok" /\ lastOp.value = lastOp.view[First(hits)].id

\* C9: a reference that is neither an id nor (once a leading '#' is removed)
\* '@'-prefixed resolves to the id of a channel or private channel whose name
\* equals it exactly, case included, after one leading '#' is removed; when
\* there is none it fails with an error naming the searched reference, and
\* never returns another conversation's id.
C9_ExactChannelNameOrFailure ==
    ( /\ lastOp.op = "resolve"
      /\ ~IsId(lastOp.ref)
      /\ ~StartsWith(Unhashed(lastOp.ref), <<"@">>)
      /\ lastOp.kind # "SlackApiError" ) =>
        LET wanted == Unhashed(lastOp.ref)
            hits == {i \in 1..Len(lastOp.view) :
                        /\ lastOp.view[i].type \in {"channel", "group"}
                        /\ lastOp.view[i].name = <<"#">> \o wanted}
        IN IF hits = {}
           THEN lastOp.kind = "ValueError" /\ lastOp.searched = wanted
           ELSE lastOp.kind = "ok" /\ \E i \in hits : lastOp.value = lastOp.view[i].id

\* C9 witness: '#Dev' resolved to the private channel Dev while the channel
\* dev, which differs in case only, is listed before it.
C9_Witness ==
    /\ lastOp.op = "resolve" /\ lastOp.ref = <<"#","D","e","v">>
    /\ lastOp.kind = "ok" /\ lastOp.value = <<"G","1">>
    /\ \E i \in 1..Len(lastOp.view) : lastOp.view[i].name = <<"#","d","e","v">>

\* the user a direct-message conversation's placeholder names
PlaceholderUser(conv) == DropFirst(conv.name, Len(UserPrefix))

\* C10: find_direct_message returns the first conversation whose resolved
\* name equals the normalized input case-insensitively, also when an earlier
\* conversation contains the input; only when no name equals it does it
\* return the first conversation whose name contains it, and it fails when
\* none does.
C10_ExactMatchFirst ==
    (lastOp.op = "find_dm" /\ lastOp.kind # "SlackApiError") =>
        LET person == LStrip(Strip(Lower(lastOp.ref)), "@")
            dms == lastOp.dms
            Known(i) == PlaceholderUser(dms[i]) \in DOMAIN userCache
            Name(i) == Lower(userCache[PlaceholderUser(dms[i])].real_name)
            exact == {i \in 1..Len(dms) : Known(i) /\ Name(i) = person}
            partial == {i \in 1..Len(dms) : Known(i) /\ Contains(Name(i), person)}
        IN IF exact # {}
           THEN /\ lastOp.kind = "ok"
                /\ lastOp.value = dms[First(exact)].id
                /\ Lower(lastOp.name) = <<"@">> \o person
           ELSE /\ \A i \in 1..Len(dms) : Known(i)
                /\ IF partial # {}
                   THEN lastOp.kind = "ok" /\ lastOp.value = dms[First(partial)].id
                   ELSE lastOp.kind = "ValueError" /\ lastOp.searched = lastOp.ref

\* C10 witness: 'jen' found the conversation with Jen although the
\* conversation with Jenny, whose resolved name contains 'jen', is listed first.
C10_Witness ==
    /\ lastOp.op = "find_dm" /\ lastOp.ref = <<"j","e","n">>
    /\ lastOp.kind = "ok" /\ lastOp.value = <<"D","1">>
    /\ Len(lastOp.dms) = 2 /\ lastOp.dms[1].id = <<"D","2">>
    /\ U2 \in DOMAIN userCache
    /\ userCache[U2].real_name = <<"J","e","n","n","y">>

(***************************************************************************)
(* Properties of the write path (checked under SpecSend).                  *)
(***************************************************************************)

\* the operation posts a message
Posting == lastOp.op \in {"send", "reply"}

\* C4: a send issues the post at most once, and it returns a Message with
\* the id the backend assigned exactly when the backend accepted the post:
\* a send whose post was accepted never ends in a failure.
C4_AcceptedPostIsReported ==
    Posting =>
        /\ lastOp.posts <= 1
        /\ (lastOp.kind = "ok") = lastOp.accepted
        /\ lastOp.kind = "ok" => lastOp.ts = NewTs

\* the messages of the conversation with the id ts
Quoted(ts) == {i \in 1..Len(history) : history[i].ts = ts}

IsPrefix(p, s) == Len(p) <= Len(s) /\ SubSeq(s, 1, Len(p)) = p

EndsWith(s, e) == Len(e) <= Len(s) /\ SubSeq(s, Len(s) - Len(e) + 1, Len(s)) = e

\* e is an excerpt of original: at most its first 50 characters with the
\* newlines replaced by spaces, ending where a word ends (when a word ends
\* there at all), whether or not surrounding blanks are dropped and an
\* ellipsis marks the cut
IsExcerpt(e, original) ==
    LET flat == Replace(original, <<"\n">>, <<" ">>)
        body == IF EndsWith(e, Ellipsis) THEN SubSeq(e, 1, Len(e) - 3) ELSE e
    IN /\ Len(body) <= 50
       /\ \/ IsPrefix(body, flat)
          \/ IsPrefix(body, Strip(flat))
       /\ \/ Len(body) = Len(flat)
          \/ Len(body) = Len(Strip(flat))
          \/ flat[Len(body) + 1] = " "
          \/ " " \notin Range(SubSeq(flat, 1, 50))

\* posted is the caller's text behind a quotation of original
IsQuotation(posted, original, text) ==
    LET open == <<"R","e",":"," ","\"">>
        close == <<"\""," ","--"," ">> \o text
    IN /\ IsPrefix(open, posted)
       /\ EndsWith(posted, close)
       /\ Len(posted) >= Len(open) + Len(close)
       /\ IsExcerpt(SubSeq(posted, Len(open) + 1, Len(posted) - Len(close)), original)

\* C5: a send quoting a message, all of whose history reads succeeded, posts
\* the caller's text unmodified when the quoted message is the most recent
\* message of the conversation, and posts it behind 'Re: "<excerpt>" -- '
\* when the quoted message exists with a non-empty text and is not the most
\* recent one.
C5_QuotedUnlessMostRecent ==
    ( /\ lastOp.op = "send" /\ lastOp.ctx # 0 /\ lastOp.posts = 1
      /\ lastOp.reads = "ok" /\ lastOp.lookup = "ok" ) =>
        IF history # <<>> /\ history[1].ts = lastOp.ctx
        THEN lastOp.posted.text = SendText
        ELSE \A i \in Quoted(lastOp.ctx) :
                 history[i].text # <<>>
                     => IsQuotation(lastOp.posted.text, history[i].text, SendText)

\* the quoted message is among the conversation's three newest messages
AmongRecent(ts) == \E i \in Quoted(ts) : i <= 3

\* C6: when a send quotes a message that cannot be obtained (no message of
\* the conversation has the id, or a history read made to look it up fails),
\* the send still issues the post, with the caller's text unmodified.
C6_MissingQuoteIsNotFatal ==
    ( /\ lastOp.op = "send" /\ lastOp.ctx # 0 /\ lastOp.resolution = "ok"
      /\ \/ Quoted(lastOp.ctx) = {}
         \/ lastOp.reads # "ok"
         \/ lastOp.lookup # "ok" /\ ~AmongRecent(lastOp.ctx) ) =>
        /\ lastOp.posts = 1
        /\ lastOp.posted.text = SendText

\* the reference of the operation matches no conversation the client goes by
NoMatch ==
    IF lastOp.op = "find_dm"
    THEN LET person == LStrip(Strip(Lower(lastOp.ref)), "@") IN
         /\ lastOp.kind # "SlackApiError"
         /\ \A i \in 1..Len(lastOp.dms) :
                LET user_id == PlaceholderUser(lastOp.dms[i]) IN
                /\ user_id \in DOMAIN userCache
                /\ ~Contains(Lower(userCache[user_id].real_name), person)
    ELSE LET wanted == Unhashed(lastOp.ref) IN
         /\ ~IsId(lastOp.ref)
         /\ lastOp.resolution # "error"
         /\ \A i \in 1..Len(lastOp.view) :
                IF StartsWith(wanted, <<"@">>)
                THEN ~( /\ lastOp.view[i].type = "dm"
                        /\ Contains(Lower(lastOp.view[i].name), Lower(Tail(wanted))) )
                ELSE ~( /\ lastOp.view[i].type \in {"channel", "group"}
                        /\ lastOp.view[i].name = <<"#">> \o wanted )

\* C7: a send, reply, reaction or direct-message search whose reference
\* matches no conversation ends in a resolution failure, and an operation
\* whose resolution did not succeed issues no post and no reaction.
C7_NoWriteAfterFailedResolution ==
    (lastOp.op \in {"send", "reply", "react", "find_dm"}) =>
        /\ NoMatch => lastOp.kind = "ValueError" /\ lastOp.resolution = "failed"
        /\ lastOp.resolution # "ok" => lastOp.posts = 0 /\ lastOp.reacts = 0

\* C7 witness: a send to a channel that is not listed failed.
C7_Witness ==
    /\ lastOp.op = "send" /\ lastOp.ref = <<"o","p","s">>
    /\ NoMatch /\ lastOp.kind = "ValueError"
    /\ lastOp.posts = 0
    /\ Len(lastOp.view) > 0

\* C16: a reaction whose reference matches a conversation returns false,
\* without raising, whenever a backend call made for it is rejected, and
\* returns true only if the backend accepted the reaction.
C16_ReactNeverRaises ==
    (lastOp.op = "react" /\ lastOp.resolution # "failed") =>
        /\ lastOp.kind \in {"true", "false"}
        /\ lastOp.kind = "true" => lastOp.accepted

(***************************************************************************)
(* Properties of reading (checked under SpecRead).                         *)
(***************************************************************************)

\* C11: reading a conversation's history yields no message, without raising,
\* when the backend answers channel_not_found, and ends in the backend's
\* error when the history call fails in any other way.
C11_NotFoundIsEmptyOtherErrorsPropagate ==
    (lastOp.op = "history" /\ lastOp.resolution = "ok") =>
        /\ lastOp.reads = "channel_not_found" =>
               lastOp.kind = "ok" /\ lastOp.messages = <<>>
        /\ lastOp.reads \notin {"ok", "channel_not_found"} =>
               lastOp.kind = "SlackApiError"

\* C11 witness: a history read of a conversation that has messages was
\* answered channel_not_found and returned the empty sequence.
C11_Witness ==
    /\ lastOp.op = "history" /\ lastOp.resolution = "ok"
    /\ lastOp.reads = "channel_not_found"
    /\ lastOp.kind = "ok" /\ lastOp.messages = <<>>
    /\ history # <<>>

\* the page the backend returns for a history read of limit messages
Page(limit) == SubSeq(history, 1, IF Len(history) < limit THEN Len(history) ELSE limit)

\* the messages of a page that are no join, leave or system (bot) notice
RECURSIVE NoNotices(_)
NoNotices(page) ==
    IF page = <<>> THEN <<>>
    ELSE IF Head(page).subtype \in {"channel_join", "channel_leave", "bot_message"}
         THEN NoNotices(Tail(page))
         ELSE <<Head(page)>> \o NoNotices(Tail(page))

\* the history returned is the page without its notices, each message once
\* and in the page's order, with the requested conversation's id
ExactlyThePage ==
    LET kept == NoNotices(Page(lastOp.limit)) IN
    /\ Len(lastOp.messages) = Len(kept)
    /\ \A k \in 1..Len(kept) :
           /\ lastOp.messages[k].ts = kept[k].ts
           /\ lastOp.messages[k].text = kept[k].text
           /\ lastOp.messages[k].channel_id = lastOp.value

HistoryReturned == lastOp.op = "history" /\ lastOp.kind = "ok" /\ lastOp.reads = "ok"

\* C12 (as stated): a history read returns exactly the messages of the
\* backend page that are no administrative notices, each once, with the
\* requested conversation's id, in ascending chronological order.
C12_PageInAscendingOrder ==
    HistoryReturned =>
        /\ ExactlyThePage
        /\ \A k \in 1..(Len(lastOp.messages) - 1) :
               lastOp.messages[k].ts < lastOp.messages[k + 1].ts

\* C12 (amended): a history read returns exactly the messages of the
\* backend page that are no administrative notices, each once, with the
\* requested conversation's id, in the backend's order, which is newest
\* first.
C12_PageInBackendOrder ==
    HistoryReturned =>
        /\ ExactlyThePage
        /\ \A k \in 1..(Len(lastOp.messages) - 1) :
               lastOp.messages[k].ts > lastOp.messages[k + 1].ts

\* C12 witness: a history read returned several messages of a page that
\* also held notices.
C12_Witness ==
    /\ HistoryReturned
    /\ Len(lastOp.messages) >= 2
    /\ Len(lastOp.messages) < Len(Page(lastOp.limit))

\* C13: a get_user call whose users.info request fails returns, without
\* raising, a User with the given id and the name 'Unknown User'.
C13_FailedLookupYieldsPlaceholder ==
    (lastOp.op = "get_user" /\ lastOp.lookup = "error") =>
        /\ lastOp.kind = "ok"
        /\ lastOp.user.id = lastOp.ref
        /\ lastOp.user.real_name = <<"U","n","k","n","o","w","n"," ","U","s","e","r">>

\* C13 witness: a get_user call whose users.info request failed returned.
C13_Witness ==
    /\ lastOp.op = "get_user" /\ lastOp.lookup = "error"
    /\ lastOp.kind = "ok" /\ lastOp.user.id = <<"U","1">>

\* C14: the backend receives at most one users.info request per user id;
\* an entry of the user cache, the placeholder of a failed lookup included,
\* is never evicted or replaced, and a get_user call for a cached id returns
\* the entry without a request.
C14_OneLookupPerUser ==
    /\ [](\A u \in DOMAIN lookups : lookups[u] <= 1)
    /\ [][ /\ \A u \in DOMAIN userCache :
                  u \in DOMAIN userCache' /\ userCache'[u] = userCache[u]
           /\ (lastOp'.op = "get_user" /\ lastOp'.ref \in DOMAIN userCache) =>
                  /\ lookups' = lookups
                  /\ lastOp'.user = userCache[lastOp'.ref] ]_vars

\* C14 witness: a get_user call returned the cached placeholder of an
\* earlier failed lookup, and the backend has received one request.
C14_Witness ==
    /\ lastOp.op = "get_user" /\ lastOp.lookup = "cached"
    /\ lastOp.user.real_name = <<"U","n","k","n","o","w","n"," ","U","s","e","r">>
    /\ lookups[lastOp.ref] = 1

\* the user of the backend's direct-message conversation with the id
UserOf(id) == (CHOOSE i \in 1..Len(directory) : directory[i]["id"] = id)

\* a listed direct-message conversation carries the placeholder of its user
Placeholders(convs) ==
    \A k \in 1..Len(convs) :
        convs[k].type = "dm" =>
            convs[k].name = <<"@","u","s","e","r",":">> \o directory[UserOf(convs[k].id)].user

\* C15: listing conversations with any filter, from the cache or from the
\* backend, issues no users.info request; every direct-message conversation
\* listed or cached carries the placeholder of its user's id; and resolving
\* names for display leaves the cached conversations as they were.
C15_NamesResolvedLazily ==
    /\ [](Placeholders(cache.convs) /\ Placeholders(lastOp.listing))
    /\ [][ /\ lastOp'.op = "channels" => lookups' = lookups /\ userCache' = userCache
           /\ lastOp'.op = "find_dm" => cache' = cache ]_vars

\* C15 witness: with the listing cached, a direct-message search resolved
\* display names through users.info, and the cached conversations still
\* carry placeholders.
C15_Witness ==
    /\ lastOp.op = "find_dm" /\ lastOp.kind = "ok"
    /\ cache.set /\ \E k \in 1..Len(cache.convs) : cache.convs[k].type = "dm"
    /\ Placeholders(cache.convs)
    /\ DOMAIN lookups # {}

(***************************************************************************)
(* Properties of the scans (checked under SpecScan).                       *)
(***************************************************************************)
\* C17 (as stated): the slack_unread tool, when every backend call it needs
\* succeeds, answers 'No unread messages.' or a listing of the conversations
\* with unread messages; it does not end in an error result.
C17_UnreadToolAnswers ==
    (lastOp.op = "slack_unread" /\ lastOp.reads = "ok") =>
        /\ lastOp.text \in {"No unread messages.", "Unread messages:"}
        /\ lastOp.text = "No unread messages." <=> lastOp.unread = <<>>

\* the conversations of a listing that are not archived
Live(convs) == SelectSeq(convs, LAMBDA c : ~c.is_archived)

\* the lower bound of the unread fetch for a conversation
Bound(conv) ==
    IF conv.last_read # <<>> THEN conv.last_read[1] ELSE now - lastOp.hours * 3600

\* the timestamps of the messages the backend holds after a bound that are
\* no notices, newest first; none for a conversation it reports not found
After(conv, bound) ==
    IF conv.id = lastOp.bad /\ lastOp.how = "channel_not_found" THEN <<>>
    ELSE LET kept == NoNotices(SelectSeq(history, LAMBDA m : bound = 0 \/ m.ts > bound))
         IN [k \in 1..Len(kept) |-> kept[k].ts]

\* the entries of the returned mapping for a conversation name
Entries(name) == { k \in 1..Len(lastOp.unread) : lastOp.unread[k].key = name }

UnreadDone == lastOp.op = "unread" /\ lastOp.kind = "ok"

\* C18: the unread computation fetches, for every non-archived conversation
\* of the listing, with the lower bound last_read if present, else the
\* look-back cutoff; the mapping has an entry for a conversation iff that
\* fetch returned at least one message, and no value list is empty.
C18_UnreadEntriesAreNonEmptyFetches ==
    UnreadDone =>
        LET live == Live(lastOp.view) IN
        /\ lastOp.fetches = [i \in 1..Len(live) |-> Fetch(live[i].id, 50, Bound(live[i]))]
        /\ \A i \in 1..Len(live) :
               /\ Entries(live[i].name) # {} <=> After(live[i], Bound(live[i])) # <<>>
               /\ \A k \in Entries(live[i].name) :
                      /\ lastOp.unread[k].ts = After(live[i], Bound(live[i]))
                      /\ lastOp.unread[k].names = {live[i].name}
        /\ \A k \in 1..Len(lastOp.unread) :
               /\ lastOp.unread[k].ts # <<>>
               /\ \E i \in 1..Len(live) : live[i].name = lastOp.unread[k].key

\* C18 witness: an unread computation ended with an entry for a conversation
\* with a last_read marker, an entry for one without, and no entry for a
\* conversation read to the end.
C18_Witness ==
    /\ UnreadDone
    /\ \E i, j, l \in 1..Len(lastOp.view) :
           /\ lastOp.view[i].last_read # <<>> /\ Entries(lastOp.view[i].name) # {}
           /\ lastOp.view[j].last_read = <<>> /\ Entries(lastOp.view[j].name) # {}
           /\ lastOp.view[l].last_read # <<>> /\ Entries(lastOp.view[l].name) = {}

\* the fetches quick_summary is allowed: the first five direct-message
\* conversations of a listing (3 messages each), then its first five channels
\* and private channels (20 each), all bounded below by the cutoff
QuickFetches(convs, cutoff) ==
    LET dm == SelectSeq(convs, LAMBDA c : c.type = "dm")
        ch == SelectSeq(convs, LAMBDA c : c.type \in {"channel", "group"})
    IN [k \in 1..(IF Len(dm) < 5 THEN Len(dm) ELSE 5) |->
            [channel |-> dm[k].id, limit |-> 3, oldest |-> cutoff]] \o
       [k \in 1..(IF Len(ch) < 5 THEN Len(ch) ELSE 5) |->
            [channel |-> ch[k].id, limit |-> 20, oldest |-> cutoff]]

Covered ==
    LET dm == Len(SelectSeq(lastOp.view, LAMBDA c : c.type = "dm"))
        ch == Len(SelectSeq(lastOp.view, LAMBDA c : c.type \in {"channel", "group"}))
        AtMost(n, k) == IF n < k THEN n ELSE k
    IN IF lastOp.op = "unread" THEN Len(Live(lastOp.view))
       ELSE IF lastOp.op = "quick" THEN AtMost(dm, 5) + AtMost(ch, 5)
       ELSE AtMost(dm, 10) + AtMost(ch, lastOp.limit)

\* C19 (as stated): when the history fetch of one conversation fails with a
\* backend error during summarize_workspace, quick_summary or the unread
\* scan, the remaining conversations are still scanned and a result is
\* returned: the scan does not raise.
C19_OneFailureDoesNotAbortScan ==
    (/\ lastOp.op \in {"unread", "quick", "summary"}
     /\ lastOp.bad # <<>> /\ lastOp.how = "ratelimited") =>
        /\ lastOp.kind = "ok"
        /\ Len(lastOp.fetches) = Covered

\* the messages a fetch of a direct-message conversation for the summary
\* returns: the newest five after the cutoff, without notices
DmFetched(conv, cutoff) ==
    IF conv.id = lastOp.bad /\ lastOp.how = "channel_not_found" THEN <<>>
    ELSE LET since == SelectSeq(history, LAMBDA m : m.ts > cutoff)
             page == SubSeq(since, 1, IF Len(since) < 5 THEN Len(since) ELSE 5)
         IN NoNotices(page)

\* how many messages of the first ten direct-message conversations' fetches
\* are as new as ts
FetchedSince(ts) ==
    LET dm == SelectSeq(lastOp.view, LAMBDA c : c.type = "dm")
        cutoff == now - lastOp.hours * 3600
        AsNew(k) == Len(SelectSeq(DmFetched(dm[k], cutoff), LAMBDA m : m.ts >= ts))
        Sum[k \in 0..10] == IF k = 0 THEN 0 ELSE Sum[k - 1] + AsNew(k)
    IN Sum[IF Len(dm) < 10 THEN Len(dm) ELSE 10]

\* the fetches summarize_workspace is allowed: the first ten direct-message
\* conversations (5 messages each, from the cutoff), then the first
\* max_channels channels and private channels (50 each, no bound)
SummaryFetches(convs, cutoff, max_channels) ==
    LET dm == SelectSeq(convs, LAMBDA c : c.type = "dm")
        ch == SelectSeq(convs, LAMBDA c : c.type \in {"channel", "group"})
    IN [k \in 1..(IF Len(dm) < 10 THEN Len(dm) ELSE 10) |->
            [channel |-> dm[k].id, limit |-> 5, oldest |-> cutoff]] \o
       [k \in 1..(IF Len(ch) < max_channels THEN Len(ch) ELSE max_channels) |->
            [channel |-> ch[k].id, limit |-> 50, oldest |-> 0]]

Summarized == lastOp.op = "summary" /\ lastOp.kind = "ok"

\* C21: summarize_workspace fetches history for at most 10 direct-message
\* conversations (limit 5, from the cutoff) and at most max_channels channels
\* and private channels (limit 50, no time bound); the direct messages it
\* returns are at most 20, the 20 newest of those fetched.
C21_SummaryIsBounded ==
    lastOp.op = "summary" =>
        LET allowed == SummaryFetches(lastOp.view, now - lastOp.hours * 3600,
                                      lastOp.limit)
            dms == lastOp.summary.dms
        IN
        /\ IsPrefix(lastOp.fetches, allowed)
        /\ Len(lastOp.fetches) <= 10 + lastOp.limit
        /\ lastOp.kind = "ok" =>
               /\ lastOp.fetches = allowed
               /\ Len(dms) <= 20
               /\ \A ts \in 1..6 :
                      LET n == FetchedSince(ts) IN
                      Len(SelectSeq(dms, LAMBDA m : m.ts >= ts)) =
                          IF n < 20 THEN n ELSE 20

\* C21 witness: a summary of a workspace of more than ten direct messages
\* and more channels than max_channels returned 20 of the more than 20
\* direct messages it fetched.
C21_Witness ==
    /\ Summarized
    /\ Len(SelectSeq(lastOp.view, LAMBDA c : c.type = "dm")) > 10
    /\ Len(SelectSeq(lastOp.view, LAMBDA c : c.type \in {"channel", "group"})) > lastOp.limit
    /\ Len(lastOp.fetches) = 10 + lastOp.limit
    /\ lastOp.summary.dm_count > 20 /\ Len(lastOp.summary.dms) = 20

\* a list of messages is ordered newest first
NewestFirst(messages) ==
    \A k \in 1..(Len(messages) - 1) : messages[k].ts >= messages[k + 1].ts

\* C22: in every summary summarize_workspace returns, the direct messages,
\* the action items and the mentions are each ordered newest first.
C22_SummaryListsNewestFirst ==
    Summarized =>
        /\ NewestFirst(lastOp.summary.dms)
        /\ NewestFirst(lastOp.summary.action_items)
        /\ NewestFirst(lastOp.summary.mentions)

\* the conversations and the times of a list of messages
Names(messages) == { messages[k].channel_name : k \in 1..Len(messages) }
Times(messages) == { messages[k].ts : k \in 1..Len(messages) }

\* C22 witness: a summary whose three lists each hold messages of several
\* conversations and of several times.
C22_Witness ==
    /\ Summarized
    /\ \A l \in {lastOp.summary.dms, lastOp.summary.action_items,
                 lastOp.summary.mentions} :
           Cardinality(Names(l)) > 1 /\ Cardinality(Times(l)) > 1

\* C23 (as stated): the mentions quick_summary lists are ordered newest
\* first across the channels it scanned, as its direct messages are.
C23_QuickMentionsNewestFirst ==
    (lastOp.op = "quick" /\ lastOp.kind = "ok") =>
        /\ NewestFirst(lastOp.recent)
        /\ NewestFirst(lastOp.mentions)

\* the channels and private channels summarize_workspace scans
ScannedChannels ==
    LET ch == SelectSeq(lastOp.view, LAMBDA c : c.type \in {"channel", "group"})
    IN SubSeq(ch, 1, IF Len(ch) < lastOp.limit THEN Len(ch) ELSE lastOp.limit)

\* the messages the fetch of a scanned channel returns
ChannelFetched(conv) ==
    IF conv.id = lastOp.bad /\ lastOp.how = "channel_not_found" THEN <<>>
    ELSE NoNotices(Page(50))

\* the text mentions the caller and ends in a question mark
AsksCaller(text) ==
    /\ Contains(text, <<"<","@","U","0",">">>)
    /\ text # <<>> /\ text[Len(text)] = "?"

\* the summaries of the channel of a name
SummariesOf(name) ==
    { k \in 1..Len(lastOp.summary.channels) : lastOp.summary.channels[k].name = name }

\* the message of a conversation and a time is among the listed ones
Listed(messages, name, ts) ==
    \E k \in 1..Len(messages) : messages[k].channel_name = name /\ messages[k].ts = ts

\* C24: every scanned channel that returned a message has one ChannelSummary
\* with the number of messages fetched, whose has_action_items tells whether
\* a message of the channel is among the action items; a fetched message
\* that mentions the caller and ends in '?' is an action item; a channel
\* that returned no message has no ChannelSummary.
C24_ChannelSummariesMatchFetches ==
    Summarized =>
        /\ \A i \in 1..Len(ScannedChannels) :
             LET conv == ScannedChannels[i]
                 fetched == ChannelFetched(conv)
             IN
             /\ fetched = <<>> => SummariesOf(conv.name) = {}
             /\ fetched # <<>> =>
                  /\ Cardinality(SummariesOf(conv.name)) = 1
                  /\ \A k \in SummariesOf(conv.name) :
                       /\ lastOp.summary.channels[k].message_count = Len(fetched)
                       /\ lastOp.summary.channels[k].has_action_items <=>
                              conv.name \in Names(lastOp.summary.action_items)
             /\ \A j \in 1..Len(fetched) :
                    AsksCaller(fetched[j].text) =>
                        Listed(lastOp.summary.action_items, conv.name, fetched[j].ts)
        /\ \A k \in 1..Len(lastOp.summary.channels) :
               \E i \in 1..Len(ScannedChannels) :
                   ScannedChannels[i].name = lastOp.summary.channels[k].name

\* C24 witness: a summary with a channel holding an action item that ends in
\* '?', and a scanned channel that returned no message and has no summary.
C24_Witness ==
    /\ Summarized
    /\ \E i, l \in 1..Len(ScannedChannels) :
           /\ \E j \in 1..Len(ChannelFetched(ScannedChannels[i])) :
                  LET m == ChannelFetched(ScannedChannels[i])[j] IN
                  /\ AsksCaller(m.text) /\ ~Contains(m.text, <<"e","t","a">>)
                  /\ Listed(lastOp.summary.action_items, ScannedChannels[i].name, m.ts)
           /\ \E k \in SummariesOf(ScannedChannels[i].name) :
                  lastOp.summary.channels[k].has_action_items
           /\ ChannelFetched(ScannedChannels[l]) = <<>>
           /\ SummariesOf(ScannedChannels[l].name) = {}

\* the text of the backend's message of a time
TextAt(ts) == history[CHOOSE k \in 1..Len(history) : history[k].ts = ts].text

\* C29: in every summary summarize_workspace returns, every action item
\* embeds the caller's self-mention and is among the mentions; every mention
\* is of a channel scanned for action items; mention_count is the length of
\* mentions; channel_message_count is the sum of the channels' message_count;
\* and a channel with has_action_items has has_mentions.
C29_SummaryIsConsistent ==
    Summarized =>
        LET sum == lastOp.summary
            Total[k \in 0..Len(sum.channels)] ==
                IF k = 0 THEN 0 ELSE Total[k - 1] + sum.channels[k].message_count
        IN
        /\ \A k \in 1..Len(sum.action_items) :
               /\ Contains(TextAt(sum.action_items[k].ts), <<"<","@","U","0",">">>)
               /\ Listed(sum.mentions, sum.action_items[k].channel_name,
                         sum.action_items[k].ts)
        /\ \A k \in 1..Len(sum.mentions) :
               \E i \in 1..Len(ScannedChannels) :
                   ScannedChannels[i].name = sum.mentions[k].channel_name
        /\ sum.mention_count = Len(sum.mentions)
        /\ sum.channel_message_count = Total[Len(sum.channels)]
        /\ \A k \in 1..Len(sum.channels) :
               sum.channels[k].has_action_items => sum.channels[k].has_mentions

\* C29 witness: a summary with action items, with more mentions than action
\* items, over a history holding a question that does not mention the
\* caller.
C29_Witness ==
    /\ Summarized
    /\ lastOp.summary.action_items # <<>>
    /\ lastOp.summary.mention_count > Len(lastOp.summary.action_items)
    /\ \E k \in 1..Len(history) :
           /\ history[k].text # <<>> /\ history[k].text[Len(history[k].text)] = "?"
           /\ ~Contains(history[k].text, <<"<","@","U","0",">">>)

(***************************************************************************)
(* Properties of truncate_text (checked under SpecText).                   *)
(***************************************************************************)
\* C26 (as stated): truncate_text(text, n) returns a string of at most n
\* characters for every text and every n >= 0; when the rewritten,
\* whitespace-collapsed text is longer than n the result ends in '...', the
\* ellipsis counting toward n.
C26_TruncatedToWidth ==
    lastOp.op = "truncate_text" =>
        /\ Len(lastOp.value) <= lastOp.limit
        /\ Len(Rewritten(lastOp.ref)) > lastOp.limit =>
               EndsWith(lastOp.value, <<".",".",".">>)

(***************************************************************************)
(* Properties of the classification (checked under SpecKind).              *)
(***************************************************************************)
\* a flag is set: present and true
IsSet(flag) == flag = "true"

\* C25: _get_conversation_type maps every combination of is_im, is_mpim and
\* is_private (true, false, null or absent) to exactly one of the four
\* kinds, the same at every call: direct message before group direct message
\* before private channel before channel when several flags are set.
C25_KindIsTotalWithPrecedence ==
    /\ lastOp.op = "classify" =>
        LET c == directory[1] IN
        /\ lastOp.what \in {"dm", "mpim", "group", "channel"}
        /\ IsSet(c.is_im) => lastOp.what = "dm"
        /\ (~IsSet(c.is_im) /\ IsSet(c.is_mpim)) => lastOp.what = "mpim"
        /\ (~IsSet(c.is_im) /\ ~IsSet(c.is_mpim) /\ IsSet(c.is_private)) =>
               lastOp.what = "group"
        /\ (~IsSet(c.is_im) /\ ~IsSet(c.is_mpim) /\ ~IsSet(c.is_private)) =>
               lastOp.what = "channel"

\* C25 witness: a conversation with all three flags set was classified a
\* direct message.
C25_Witness ==
    /\ lastOp.op = "classify" /\ lastOp.what = "dm"
    /\ IsSet(directory[1].is_im) /\ IsSet(directory[1].is_mpim)
    /\ IsSet(directory[1].is_private)

(***************************************************************************)
(* Properties of the enumeration page by page (checked under SpecPages).   *)
(***************************************************************************)
\* the conversations of the responses, in the order received
RECURSIVE Concatenated(_)
Concatenated(pages) ==
    IF pages = <<>> THEN <<>>
    ELSE Concatenated(SubSeq(pages, 1, Len(pages) - 1)) \o
         [i \in 1..Len(pages[Len(pages)].channels) |->
             Conversation(pages[Len(pages)].channels[i])]

\* the requests were made one after another, each with the cursor of the
\* response before it, and only after a response that carried a cursor; the
\* conversations held are those of the responses, in order; and the loop has
\* stopped iff a request failed or the latest response carried no cursor
CursorsChained ==
    /\ Len(paging.requests) \in {Len(paging.pages), Len(paging.pages) + 1}
    /\ Len(paging.requests) = Len(paging.pages) + 1 <=> paging.outcome = "error"
    /\ \A k \in 1..Len(paging.requests) :
           paging.requests[k] = IF k = 1 THEN 0 ELSE paging.pages[k - 1].next_cursor
    /\ \A k \in 1..(Len(paging.pages) - 1) : paging.pages[k].next_cursor # 0
    /\ paging.conversations = Concatenated(paging.pages)
    /\ (paging.pages # <<>> /\ paging.pages[Len(paging.pages)].next_cursor = 0) <=>
           paging.outcome = "ok"
    /\ paging.outcome = "ok" =>
           /\ ~paging.active
           /\ lastList.ok /\ lastList.conversations = Concatenated(paging.pages)
           /\ lastList.calls = Len(paging.pages)
    /\ paging.outcome = "none" /\ paging.pages # <<>> => paging.active

\* C27: an enumeration requests its pages one after another, each with the
\* cursor of the page before, accumulates their conversations in page
\* order, and stops exactly at the first page without a cursor; it
\* terminates, returning the concatenation of all pages.
C27_PagesInSequenceUntilNoCursor ==
    /\ []CursorsChained
    /\ paging.active ~> ~paging.active

\* C27 witness: an enumeration of three pages has returned.
C27_Witness ==
    /\ paging.outcome = "ok" /\ Len(paging.pages) = 3
    /\ Len(lastList.conversations) > 2 * PageSize

\* C28: when a page request of an enumeration fails, the caller gets the
\* error and no listing, and the cache and its fetch time are what they were
\* when the call began.
C28_FailedEnumerationLeavesCache ==
    paging.outcome = "error" =>
        /\ ~paging.active
        /\ ~lastList.ok /\ lastList.conversations = <<>>
        /\ cache = paging.before.cache
        /\ cacheTime = paging.before.cacheTime

\* C28 witness: an enumeration of every kind failed after a page was
\* received, with an older listing in the cache.
C28_Witness ==
    /\ paging.outcome = "error" /\ paging.types = AllTypes
    /\ paging.pages # <<>> /\ paging.conversations # <<>>
    /\ cache.set /\ cache.convs # paging.conversations

====
